---------------------------- MODULE Spec2Model ----------------------------
(***************************************************************************)
(* WarframePrimeNexus: the extractor (currentPrimes/main.js) that scrapes  *)
(* the drop-table page into the markdown dialect, and the renderer         *)
(* (htmlConverter.js, in its two versions) that parses the dialect back.   *)
(*                                                                         *)
(* Text is a sequence of one-character strings, so that trimming,          *)
(* splitting, substring search and the regular expressions of the code are *)
(* computed character by character.                                        *)
(***************************************************************************)
EXTENDS Integers, Sequences, FiniteSets, TLC

(***************************************************************************)
(* String literals of the source.                                          *)
(***************************************************************************)
\* 'Relic'
sRelic ==
  <<"R", "e", "l", "i", "c">>
\* ' (Intact)'
sIntact ==
  <<" ", "(", "I", "n", "t", "a", "c", "t", ")">>
\* '25.33%'
pctCommon ==
  <<"2", "5", ".", "3", "3", "%">>
\* '11.00%'
pctUncommon ==
  <<"1", "1", ".", "0", "0", "%">>
\* '2.00%'
pctRare ==
  <<"2", ".", "0", "0", "%">>
\* 'Common'
Common ==
  <<"C", "o", "m", "m", "o", "n">>
\* 'Uncommon'
Uncommon ==
  <<"U", "n", "c", "o", "m", "m", "o", "n">>
\* 'Rare'
Rare ==
  <<"R", "a", "r", "e">>
\* 'Forma'
sForma ==
  <<"F", "o", "r", "m", "a">>
\* 'Prime'
sPrime ==
  <<"P", "r", "i", "m", "e">>
\* ' Prime'
sSpacePrime ==
  <<" ", "P", "r", "i", "m", "e">>
\* 'Void/Hepit (Capture)'
titleHepit ==
  <<"V", "o", "i", "d", "/", "H", "e", "p", "i", "t", " ", "(", "C", "a", "p", "t", "u", "r", "e", ")">>
\* 'Void/Ukko (Capture)'
titleUkko ==
  <<"V", "o", "i", "d", "/", "U", "k", "k", "o", " ", "(", "C", "a", "p", "t", "u", "r", "e", ")">>
\* 'Lua/Apollo (Disruption)'
titleApollo ==
  <<"L", "u", "a", "/", "A", "p", "o", "l", "l", "o", " ", "(", "D", "i", "s", "r", "u", "p", "t", "i", "o", "n", ")">>
\* 'Lith'
tierLith ==
  <<"L", "i", "t", "h">>
\* 'Meso'
tierMeso ==
  <<"M", "e", "s", "o">>
\* 'Neo'
tierNeo ==
  <<"N", "e", "o">>
\* 'Axi'
tierAxi ==
  <<"A", "x", "i">>
\* 'Void/Ukko (Capture), Lua/Apollo (Disruption)'
locNeo ==
  <<"V", "o", "i", "d", "/", "U", "k", "k", "o", " ", "(", "C", "a", "p", "t", "u", "r", "e", ")", ",", " ", "L", "u", "a", "/", "A", "p", "o", "l", "l", "o", " ", "(", "D", "i", "s", "r", "u", "p", "t", "i", "o", "n", ")">>
\* 'undefined'
sUndefined ==
  <<"u", "n", "d", "e", "f", "i", "n", "e", "d">>
\* '# Generated on '
mdGenerated ==
  <<"#", " ", "G", "e", "n", "e", "r", "a", "t", "e", "d", " ", "o", "n", " ">>
\* '\n\n# Primes\n\n'
mdPrimesHeader ==
  <<"\n", "\n", "#", " ", "P", "r", "i", "m", "e", "s", "\n", "\n">>
\* '\n# Relics\n\n'
mdRelicsHeader ==
  <<"\n", "#", " ", "R", "e", "l", "i", "c", "s", "\n", "\n">>
\* '\n**Location**: '
mdLocation ==
  <<"\n", "*", "*", "L", "o", "c", "a", "t", "i", "o", "n", "*", "*", ":", " ">>
\* '# Primes'
hdrPrimes ==
  <<"#", " ", "P", "r", "i", "m", "e", "s">>
\* '# Relics'
hdrRelics ==
  <<"#", " ", "R", "e", "l", "i", "c", "s">>
\* '**Location**:'
sLocationColon ==
  <<"*", "*", "L", "o", "c", "a", "t", "i", "o", "n", "*", "*", ":">>
\* '->'
sArrow ==
  <<"-", ">">>
\* 'Systems'
sSystems ==
  <<"S", "y", "s", "t", "e", "m", "s">>
\* 'Chassis'
sChassis ==
  <<"C", "h", "a", "s", "s", "i", "s">>
\* 'Neuroptics'
sNeuroptics ==
  <<"N", "e", "u", "r", "o", "p", "t", "i", "c", "s">>

(***************************************************************************)
(* Texts of the pages and files the model draws its inputs from.           *)
(***************************************************************************)
\* 'Lith A1 Relic'
relicLithA ==
  <<"L", "i", "t", "h", " ", "A", "1", " ", "R", "e", "l", "i", "c">>
\* 'Neo B2 Relic'
relicNeoB ==
  <<"N", "e", "o", " ", "B", "2", " ", "R", "e", "l", "i", "c">>
\* 'Vault C3 Relic'
relicOddC ==
  <<"V", "a", "u", "l", "t", " ", "C", "3", " ", "R", "e", "l", "i", "c">>
\* 'Volt Prime Systems'
itemVoltSystems ==
  <<"V", "o", "l", "t", " ", "P", "r", "i", "m", "e", " ", "S", "y", "s", "t", "e", "m", "s">>
\* 'Volt Prime Chassis'
itemVoltChassis ==
  <<"V", "o", "l", "t", " ", "P", "r", "i", "m", "e", " ", "C", "h", "a", "s", "s", "i", "s">>
\* 'Braton Prime Stock'
itemBratonStock ==
  <<"B", "r", "a", "t", "o", "n", " ", "P", "r", "i", "m", "e", " ", "S", "t", "o", "c", "k">>
\* 'Forma Blueprint'
itemForma ==
  <<"F", "o", "r", "m", "a", " ", "B", "l", "u", "e", "p", "r", "i", "n", "t">>
\* 'Forma Prime Bundle'
itemPrimeForma ==
  <<"F", "o", "r", "m", "a", " ", "P", "r", "i", "m", "e", " ", "B", "u", "n", "d", "l", "e">>
\* 'Ak (Dual) Prime Link'
itemAkLink ==
  <<"A", "k", " ", "(", "D", "u", "a", "l", ")", " ", "P", "r", "i", "m", "e", " ", "L", "i", "n", "k">>
\* 'Primed Flow'
itemPrimedFlow ==
  <<"P", "r", "i", "m", "e", "d", " ", "F", "l", "o", "w">>
\* 'Endo Cache'
itemEndo ==
  <<"E", "n", "d", "o", " ", "C", "a", "c", "h", "e">>
\* 'Common (25.33%)'
txtCommon ==
  <<"C", "o", "m", "m", "o", "n", " ", "(", "2", "5", ".", "3", "3", "%", ")">>
\* 'Uncommon (11.00%)'
txtUncommon ==
  <<"U", "n", "c", "o", "m", "m", "o", "n", " ", "(", "1", "1", ".", "0", "0", "%", ")">>
\* 'Rare (2.00%)'
txtRare ==
  <<"R", "a", "r", "e", " ", "(", "2", ".", "0", "0", "%", ")">>
\* 'Legendary (0.50%)'
txtLegendary ==
  <<"L", "e", "g", "e", "n", "d", "a", "r", "y", " ", "(", "0", ".", "5", "0", "%", ")">>
\* ' 25.33% or 11.00%'
txtBoth ==
  <<" ", "2", "5", ".", "3", "3", "%", " ", "o", "r", " ", "1", "1", ".", "0", "0", "%">>
\* '12.00%'
txtTwelve ==
  <<"1", "2", ".", "0", "0", "%">>
\* 'Rewards'
txtRewards ==
  <<"R", "e", "w", "a", "r", "d", "s">>
\* 'Credits Cache'
txtCredits ==
  <<"C", "r", "e", "d", "i", "t", "s", " ", "C", "a", "c", "h", "e">>
\* 'May 1, 2025'
dateText ==
  <<"M", "a", "y", " ", "1", ",", " ", "2", "0", "2", "5">>
\* '- Volt Prime'
lnVoltPrime ==
  <<"-", " ", "V", "o", "l", "t", " ", "P", "r", "i", "m", "e">>
\* '  - Volt Prime Systems (Rare) -> Lith A1 Relic'
lnPartSystems ==
  <<" ", " ", "-", " ", "V", "o", "l", "t", " ", "P", "r", "i", "m", "e", " ", "S", "y", "s", "t", "e", "m", "s", " ", "(", "R", "a", "r", "e", ")", " ", "-", ">", " ", "L", "i", "t", "h", " ", "A", "1", " ", "R", "e", "l", "i", "c">>
\* '  - Volt Prime Chassis (Common)'
lnPartNoArrow ==
  <<" ", " ", "-", " ", "V", "o", "l", "t", " ", "P", "r", "i", "m", "e", " ", "C", "h", "a", "s", "s", "i", "s", " ", "(", "C", "o", "m", "m", "o", "n", ")">>
\* '## Lith A1 Relic'
lnRelicLithA ==
  <<"#", "#", " ", "L", "i", "t", "h", " ", "A", "1", " ", "R", "e", "l", "i", "c">>
\* '## '
lnRelicEmpty ==
  <<"#", "#", " ">>
\* '**Location**: Void: Hepit'
lnLocation ==
  <<"*", "*", "L", "o", "c", "a", "t", "i", "o", "n", "*", "*", ":", " ", "V", "o", "i", "d", ":", " ", "H", "e", "p", "i", "t">>
\* '- BadLineNoParen'
lnBadLineNoParen ==
  <<"-", " ", "B", "a", "d", "L", "i", "n", "e", "N", "o", "P", "a", "r", "e", "n">>
\* '- Forma Blueprint (Uncommon)'
lnRewardForma ==
  <<"-", " ", "F", "o", "r", "m", "a", " ", "B", "l", "u", "e", "p", "r", "i", "n", "t", " ", "(", "U", "n", "c", "o", "m", "m", "o", "n", ")">>
\* '- Braton Prime Stock (Rare)'
lnRewardStock ==
  <<"-", " ", "B", "r", "a", "t", "o", "n", " ", "P", "r", "i", "m", "e", " ", "S", "t", "o", "c", "k", " ", "(", "R", "a", "r", "e", ")">>
\* 'Just some text'
lnText ==
  <<"J", "u", "s", "t", " ", "s", "o", "m", "e", " ", "t", "e", "x", "t">>
\* '- -> Neo B2 Relic'
lnArrowOnly ==
  <<"-", " ", "-", ">", " ", "N", "e", "o", " ", "B", "2", " ", "R", "e", "l", "i", "c">>
\* 'Volt Prime'
sVoltPrime ==
  <<"V", "o", "l", "t", " ", "P", "r", "i", "m", "e">>
\* 'BadLineNoParen'
sBadLineNoParen ==
  <<"B", "a", "d", "L", "i", "n", "e", "N", "o", "P", "a", "r", "e", "n">>

(***************************************************************************)
(* JavaScript string and array primitives used by the code.                *)
(***************************************************************************)
\* String.prototype.trim strips these (the ones that occur in the inputs).
WhiteSpace ==
  {" ", "\n", "\t"}

\* p occurs in s at position i (1-based).
matchesAt(s, p, i) ==
  /\ i >= 1
  /\ i + Len(p) - 1 <= Len(s)
  /\ \A k \in 1..Len(p) : s[i + k - 1] = p[k]

\* String.prototype.indexOf(p, from), 1-based; 0 when p does not occur.
indexOfFrom(s, p, from) ==
  LET hits == {i \in from..(Len(s) - Len(p) + 1) : matchesAt(s, p, i)}
  IN  IF hits = {} THEN 0 ELSE CHOOSE i \in hits : \A j \in hits : i <= j

indexOf(s, p) ==
  indexOfFrom(s, p, 1)

\* String.prototype.includes
includes(s, p) ==
  indexOf(s, p) # 0

\* String.prototype.startsWith
startsWith(s, p) ==
  matchesAt(s, p, 1)

\* String.prototype.substring(from) with a 0-based index, as in the code.
substring(s, from) ==
  SubSeq(s, from + 1, Len(s))

\* String.prototype.trim
trim(s) ==
  LET keep == {i \in 1..Len(s) : s[i] \notin WhiteSpace}
  IN  IF keep = {} THEN <<>>
      ELSE SubSeq(s, CHOOSE i \in keep : \A j \in keep : i <= j,
                     CHOOSE i \in keep : \A j \in keep : i >= j)

\* String.prototype.split(sep) for a non-empty separator: the pieces between
\* the successive (leftmost, non-overlapping) occurrences of sep.
RECURSIVE splitFrom(_, _, _)
splitFrom(s, sep, from) ==
  LET at == indexOfFrom(s, sep, from)
  IN  IF at = 0 THEN <<SubSeq(s, from, Len(s))>>
      ELSE <<SubSeq(s, from, at - 1)>> \o splitFrom(s, sep, at + Len(sep))

split(s, sep) ==
  splitFrom(s, sep, 1)

\* Array.prototype.join
RECURSIVE join(_, _)
join(pieces, sep) ==
  IF pieces = <<>> THEN <<>>
  ELSE IF Len(pieces) = 1 THEN pieces[1]
  ELSE pieces[1] \o sep \o join(Tail(pieces), sep)

\* String.prototype.replace(p, '') with a string pattern: the first
\* occurrence only.
replaceFirst(s, p) ==
  LET at == indexOf(s, p)
  IN  IF at = 0 THEN s
      ELSE SubSeq(s, 1, at - 1) \o SubSeq(s, at + Len(p), Len(s))

\* Array.prototype.map(s => s.trim())
mapTrim(pieces) ==
  [i \in 1..Len(pieces) |-> trim(pieces[i])]

\* UTF-16 code-unit order of the characters that occur in names (the order
\* Array.prototype.sort uses by default).
CodeUnits ==
  <<"\n", " ", "#", "%", "(", ")", "*", ",", "-", ".", "/",
    "0", "1", "2", "3", "4", "5", "6", "7", "8", "9", ":", ">",
    "A", "B", "C", "D", "E", "F", "G", "H", "I", "J", "K", "L", "M",
    "N", "O", "P", "Q", "R", "S", "T", "U", "V", "W", "X", "Y", "Z",
    "a", "b", "c", "d", "e", "f", "g", "h", "i", "j", "k", "l", "m",
    "n", "o", "p", "q", "r", "s", "t", "u", "v", "w", "x", "y", "z">>

charCode(c) ==
  CHOOSE i \in 1..Len(CodeUnits) : CodeUnits[i] = c

\* a < b in the default sort order: the first differing code unit decides,
\* a proper prefix comes first.
stringLess(a, b) ==
  LET n == IF Len(a) < Len(b) THEN Len(a) ELSE Len(b)
      diff == {i \in 1..n : a[i] # b[i]}
  IN  IF diff = {} THEN Len(a) < Len(b)
      ELSE LET d == CHOOSE i \in diff : \A j \in diff : i <= j
           IN  charCode(a[d]) < charCode(b[d])

(***************************************************************************)
(* JavaScript objects used as string-keyed maps: a sequence of             *)
(* [key, value] records in insertion order (the order of for..in and of    *)
(* Object.keys for keys that are not array indexes).                       *)
(***************************************************************************)
objHas(obj, key) ==
  \E i \in 1..Len(obj) : obj[i].key = key

objGet(obj, key) ==
  obj[CHOOSE i \in 1..Len(obj) : obj[i].key = key].value

\* obj[key] = value: an existing key keeps its position.
objSet(obj, key, value) ==
  IF objHas(obj, key)
  THEN [i \in 1..Len(obj) |->
          IF obj[i].key = key THEN [key |-> key, value |-> value] ELSE obj[i]]
  ELSE Append(obj, [key |-> key, value |-> value])

objKeys(obj) ==
  [i \in 1..Len(obj) |-> obj[i].key]

(***************************************************************************)
(* The fetched page: a sequence of tables, each a sequence of sibling rows *)
(* [blank, cells], a cell being [tag, text] with tag "th" or "td".         *)
(***************************************************************************)
hasTh(row) ==
  \E c \in 1..Len(row.cells) : row.cells[c].tag = "th"

tdCells(row) ==
  SelectSeq(row.cells, LAMBDA cell : cell.tag = "td")

\* Array.from(querySelectorAll('th')).find(th => th.textContent.trim() === title)
\* followed by .parentElement: the first row, in document order, holding
\* such a header cell; <<0, 0>> when there is none.
findHeaderRow(document, title) ==
  LET rowsOf(t) == {<<t, r>> : r \in 1..Len(document[t])}
      all == UNION {rowsOf(t) : t \in 1..Len(document)}
      hits == {p \in all :
                 \E c \in 1..Len(document[p[1]][p[2]].cells) :
                   /\ document[p[1]][p[2]].cells[c].tag = "th"
                   /\ trim(document[p[1]][p[2]].cells[c].text) = title}
  IN  IF hits = {} THEN <<0, 0>>
      ELSE CHOOSE p \in hits :
             \A q \in hits : p[1] < q[1] \/ (p[1] = q[1] /\ p[2] <= q[2])

\* The loop `while (currentRow && !currentRow.classList.contains('blank-row'))`
\* from parentElement.nextElementSibling: the sibling rows after row pos[2]
\* of table pos[1], up to the first blank row or the end of the table.
rowsAfter(document, pos) ==
  LET table == document[pos[1]]
      blanks == {k \in (pos[2] + 1)..Len(table) : table[k].blank}
      last == IF blanks = {} THEN Len(table)
              ELSE (CHOOSE k \in blanks : \A j \in blanks : k <= j) - 1
  IN  SubSeq(table, pos[2] + 1, last)

findSubTableData(document, subTableTitle) ==
  LET targetTableStart == findHeaderRow(document, subTableTitle)
  IN  IF targetTableStart = <<0, 0>> THEN <<>>
      ELSE LET scanned == rowsAfter(document, targetTableStart)
               kept == SelectSeq(scanned, LAMBDA row :
                         /\ ~hasTh(row)
                         /\ tdCells(row) # <<>>
                         /\ includes(tdCells(row)[1].text, sRelic))
           IN  [i \in 1..Len(kept) |-> trim(tdCells(kept[i])[1].text)]

\* rarityOf with the tests for "25.33%" and "11.00%" in the other order.
rarityOf_swapped(rarityText) ==
  IF includes(rarityText, pctUncommon) THEN Uncommon
  ELSE IF includes(rarityText, pctCommon) THEN Common
  ELSE IF includes(rarityText, pctRare) THEN Rare
  ELSE <<>>

\* The drop-chance text of a reward row to its rarity label.
rarityOf(rarityText) ==
  IF includes(rarityText, pctCommon) THEN Common
  ELSE IF includes(rarityText, pctUncommon) THEN Uncommon
  ELSE IF includes(rarityText, pctRare) THEN Rare
  ELSE <<>>

\* [threw, rows]: cells[1].textContent raises a TypeError on a row with a
\* single data cell.
findRelicTableData(document, relicName) ==
  LET searchName == relicName \o sIntact
      targetTableStart == findHeaderRow(document, searchName)
  IN  IF targetTableStart = <<0, 0>> THEN [threw |-> FALSE, rows |-> <<>>]
      ELSE LET scanned == rowsAfter(document, targetTableStart)
               kept == SelectSeq(scanned, LAMBDA row : Len(tdCells(row)) > 0)
           IN  IF \E i \in 1..Len(kept) : Len(tdCells(kept[i])) < 2
               THEN [threw |-> TRUE, rows |-> <<>>]
               ELSE [threw |-> FALSE,
                     rows |-> [i \in 1..Len(kept) |->
                        [item |-> trim(tdCells(kept[i])[1].text),
                         rarity |-> rarityOf(trim(tdCells(kept[i])[2].text))]]]

\* The concatenation of a sequence of sequences.
RECURSIVE flatten(_)
flatten(seqs) ==
  IF seqs = <<>> THEN <<>> ELSE seqs[1] \o flatten(Tail(seqs))

\* collectRelicData that appends an entry for every listing of a relic.
RECURSIVE collectRelicData_append(_, _, _)
collectRelicData_append(document, names, relicData) ==
  IF names = <<>> THEN [threw |-> FALSE, relicData |-> relicData]
  ELSE LET found == findRelicTableData(document, names[1])
       IN  IF found.threw THEN [threw |-> TRUE, relicData |-> <<>>]
           ELSE collectRelicData_append(document, Tail(names),
                  Append(relicData, [key |-> names[1], value |-> found.rows]))

\* The second loop of extractSubTableData, over the listed relic names.
RECURSIVE collectRelicData(_, _, _)
collectRelicData(document, names, relicData) ==
  IF names = <<>> THEN [threw |-> FALSE, relicData |-> relicData]
  ELSE LET found == findRelicTableData(document, names[1])
       IN  IF found.threw THEN [threw |-> TRUE, relicData |-> <<>>]
           ELSE collectRelicData(document, Tail(names),
                                 objSet(relicData, names[1], found.rows))

\* extractSubTableData after the fetch: [threw, relicData].
extractSubTableData(document, subTableTitles) ==
  LET results == [i \in 1..Len(subTableTitles) |->
                    findSubTableData(document, subTableTitles[i])]
  IN  collectRelicData(document, flatten(results), <<>>)

\* item.split(' Prime')[0] + ' Prime'
primeNameOf(item) ==
  split(item, sSpacePrime)[1] \o sSpacePrime

\* Every reward of every relic, in the order of the two nested loops of
\* extractPrimes, with the relic it comes from.
scanRewards(relicData) ==
  flatten([r \in 1..Len(relicData) |->
             [k \in 1..Len(relicData[r].value) |->
                [item |-> relicData[r].value[k].item,
                 rarity |-> relicData[r].value[k].rarity,
                 source |-> relicData[r].key]]])

\* groupOne without the exclusion of 'Forma'.
groupOne_noExclusion(primes, e) ==
  IF includes(e.item, sPrime)
  THEN LET primeName == primeNameOf(e.item)
           sofar == IF objHas(primes, primeName)
                    THEN objGet(primes, primeName) ELSE <<>>
       IN  objSet(primes, primeName, Append(sofar, e))
  ELSE primes

\* groupOne that starts the parts array anew at every reward.
groupOne_overwrite(primes, e) ==
  IF ~includes(e.item, sForma) /\ includes(e.item, sPrime)
  THEN objSet(primes, primeNameOf(e.item), <<e>>)
  ELSE primes

\* groupOne that puts the new part before the parts seen so far.
groupOne_prepend(primes, e) ==
  IF ~includes(e.item, sForma) /\ includes(e.item, sPrime)
  THEN LET primeName == primeNameOf(e.item)
           sofar == IF objHas(primes, primeName)
                    THEN objGet(primes, primeName) ELSE <<>>
       IN  objSet(primes, primeName, <<e>> \o sofar)
  ELSE primes

\* The body of the forEach callback of extractPrimes, for one reward.
groupOne(primes, e) ==
  IF ~includes(e.item, sForma) /\ includes(e.item, sPrime)
  THEN LET primeName == primeNameOf(e.item)
           sofar == IF objHas(primes, primeName)
                    THEN objGet(primes, primeName) ELSE <<>>
       IN  objSet(primes, primeName, Append(sofar, e))
  ELSE primes

RECURSIVE groupPrimes(_, _)
groupPrimes(entries, primes) ==
  IF entries = <<>> THEN primes
  ELSE groupPrimes(Tail(entries), groupOne(primes, entries[1]))

extractPrimes(relicData) ==
  groupPrimes(scanRewards(relicData), <<>>)

\* Object.keys(primes).sort(): ascending in code-unit order.
RECURSIVE sortKeys(_)
sortKeys(keys) ==
  IF keys = <<>> THEN <<>>
  ELSE LET rest == sortKeys(Tail(keys))
           before == SelectSeq(rest, LAMBDA k : stringLess(k, keys[1]))
           after == SelectSeq(rest, LAMBDA k : ~stringLess(k, keys[1]))
       IN  before \o <<keys[1]>> \o after

\* rarityOrder.indexOf(rarity) for ['Rare', 'Uncommon', 'Common'].
rarityOrderIndexOf(rarity) ==
  IF rarity = Rare THEN 0
  ELSE IF rarity = Uncommon THEN 1
  ELSE IF rarity = Common THEN 2
  ELSE -1

\* primes[prime].sort((a, b) => indexOf(a.rarity) - indexOf(b.rarity)):
\* a stable sort, ascending in the index.
RECURSIVE sortItems(_)
sortItems(items) ==
  IF items = <<>> THEN <<>>
  ELSE LET rest == sortItems(Tail(items))
           mine == rarityOrderIndexOf(items[1].rarity)
           before == SelectSeq(rest, LAMBDA x : rarityOrderIndexOf(x.rarity) < mine)
           after == SelectSeq(rest, LAMBDA x : rarityOrderIndexOf(x.rarity) >= mine)
       IN  before \o <<items[1]>> \o after

\* The relicLocations table of main.
relicLocations ==
  << [key |-> tierLith, value |-> titleHepit],
     [key |-> tierMeso, value |-> titleUkko],
     [key |-> tierNeo, value |-> locNeo],
     [key |-> tierAxi, value |-> titleApollo] >>

\* The subTableTitles list of main.
subTableTitles ==
  <<titleHepit, titleUkko, titleApollo>>

\* `${relicLocations[relic.split(' ')[0]]}`: a missing key prints "undefined".
locationOf(locations, relic) ==
  LET tier == split(relic, <<" ">>)[1]
  IN  IF objHas(locations, tier) THEN objGet(locations, tier) ELSE sUndefined

\* One iteration of sortedPrimes.forEach: the item line and its part lines.
primeBlock(prime, items) ==
  <<"-", " ">> \o prime \o <<"\n">> \o
  flatten([i \in 1..Len(items) |->
     <<" ", " ", "-", " ">> \o items[i].item \o <<" ", "(">> \o items[i].rarity
       \o <<")", " ", "-", ">", " ">> \o items[i].source \o <<"\n">>])

\* One iteration of the loop over relicData: header, rewards, location.
relicBlock(relic, rewards, locations) ==
  <<"#", "#", " ">> \o relic \o <<"\n", "\n">> \o
  flatten([i \in 1..Len(rewards) |->
     <<"-", " ">> \o rewards[i].item \o <<" ", "(">> \o rewards[i].rarity
       \o <<")", "\n">>]) \o
  mdLocation \o locationOf(locations, relic) \o <<"\n", "\n">>

generateMarkdown(primes, relicData, locations, currentDate) ==
  LET sortedPrimes == sortKeys(objKeys(primes))
  IN  mdGenerated \o currentDate \o mdPrimesHeader \o
      flatten([i \in 1..Len(sortedPrimes) |->
         primeBlock(sortedPrimes[i], sortItems(objGet(primes, sortedPrimes[i])))])
      \o mdRelicsHeader \o
      flatten([i \in 1..Len(relicData) |->
         relicBlock(relicData[i].key, relicData[i].value, locations)])

(***************************************************************************)
(* WarframeDataParser.  A Map is a sequence of [key, value] records in     *)
(* insertion order (objSet is Map.prototype.set).  The parser object is    *)
(* the record [primes, relics, currentSection, currentItem]; null is <<>>  *)
(* for currentItem (the code never stores an empty name, and tests it only *)
(* for truthiness) and "null" for currentSection.  The handlers return     *)
(* [handled, threw, parser].                                               *)
(*                                                                         *)
(* The repository holds two versions of the class.  The definitions named  *)
(* as in the source model the version with the error handling; those with  *)
(* the suffix _hc model htmlConverter/htmlConverter.js.                    *)
(***************************************************************************)
\* The value `undefined` where the code stores it in a record: a one-element
\* sequence that is no text (every character of a text is one character long).
Undefined ==
  <<"undefined">>

\* Keys every object literal inherits from Object.prototype, for which
\* sections[line] is a truthy function (those that occur in the inputs).
sConstructor ==
  <<"c", "o", "n", "s", "t", "r", "u", "c", "t", "o", "r">>

inheritedKeys ==
  {sConstructor}

newParser ==
  [primes |-> <<>>, relics |-> <<>>, currentSection |-> "null", currentItem |-> <<>>]

result(handled, threw, p) ==
  [handled |-> handled, threw |-> threw, parser |-> p]

\* sections[line] of handleSectionHeaders: the section name, a function
\* inherited from Object.prototype, or undefined.
sectionsLookup(line) ==
  IF line = hdrPrimes THEN "primes"
  ELSE IF line = hdrRelics THEN "relics"
  ELSE IF line \in inheritedKeys THEN "function"
  ELSE "undefined"

handleSectionHeaders(p, line) ==
  IF sectionsLookup(line) # "undefined"
  THEN result(TRUE, FALSE,
              [p EXCEPT !.currentSection = sectionsLookup(line),
                        !.currentItem = <<>>])
  ELSE result(FALSE, FALSE, p)

\* line.replace(/^[- ]+/, ''): the longest leading run of '-' and ' ' removed.
stripBullet(line) ==
  LET other == {i \in 1..Len(line) : line[i] \notin {"-", " "}}
  IN  IF other = {} THEN <<>>
      ELSE SubSeq(line, CHOOSE i \in other : \A j \in other : i <= j, Len(line))

\* info.match(/\(([^)]+)\)$/): the index (1-based) of the "(" of the leftmost
\* match, 0 when the pattern does not match.
rarityMatch(info) ==
  LET n == Len(info)
      starts == {i \in 1..n :
                   /\ info[i] = "("
                   /\ i + 2 <= n
                   /\ info[n] = ")"
                   /\ \A k \in (i + 1)..(n - 1) : info[k] # ")"}
  IN  IF starts = {} THEN 0
      ELSE CHOOSE i \in starts : \A j \in starts : i <= j

parsePartAndRarity(info) ==
  IF info = <<>> THEN <<<<>>, <<>>>>
  ELSE LET at == rarityMatch(info)
       IN  IF at # 0
           THEN <<trim(SubSeq(info, 1, at - 1)),
                  trim(SubSeq(info, at + 1, Len(info) - 1))>>
           ELSE <<info, <<>>>>

\* parsePartInfo that splits on '->' without trimming the two halves.
parsePartInfo_untrimmed(line) ==
  LET partLine == stripBullet(line)
      parts == split(partLine, sArrow)
  IN  IF Len(parts) < 2 THEN [threw |-> TRUE, value |-> <<>>]
      ELSE LET pr == parsePartAndRarity(parts[1])
           IN  [threw |-> FALSE,
                value |-> [part |-> pr[1], rarity |-> pr[2], relic |-> parts[2]]]

\* [threw, value]
parsePartInfo(line) ==
  LET partLine == stripBullet(line)
      parts == mapTrim(split(partLine, sArrow))
  IN  IF Len(parts) < 2 THEN [threw |-> TRUE, value |-> <<>>]
      ELSE LET pr == parsePartAndRarity(parts[1])
           IN  [threw |-> FALSE,
                value |-> [part |-> pr[1], rarity |-> pr[2], relic |-> parts[2]]]

\* parseRewardInfo that rejects a reward without a parenthesized rarity.
parseRewardInfo_strict(line) ==
  LET rewardLine == trim(substring(line, 2))
  IN  IF rewardLine = <<>> \/ rarityMatch(rewardLine) = 0
      THEN [threw |-> TRUE, value |-> <<>>]
      ELSE LET pr == parsePartAndRarity(rewardLine)
           IN  [threw |-> FALSE, value |-> [part |-> pr[1], rarity |-> pr[2]]]

\* [threw, value]
parseRewardInfo(line) ==
  LET rewardLine == trim(substring(line, 2))
  IN  IF rewardLine = <<>> THEN [threw |-> TRUE, value |-> <<>>]
      ELSE LET pr == parsePartAndRarity(rewardLine)
           IN  [threw |-> FALSE, value |-> [part |-> pr[1], rarity |-> pr[2]]]

\* this.primes.get(this.currentItem).parts.push(partInfo)
pushPart(primes, currentItem, partInfo) ==
  LET old == objGet(primes, currentItem)
  IN  objSet(primes, currentItem, [old EXCEPT !.parts = Append(@, partInfo)])

\* this.relics.get(this.currentItem).rewards.push(reward)
pushReward(relics, currentItem, reward) ==
  LET old == objGet(relics, currentItem)
  IN  objSet(relics, currentItem, [old EXCEPT !.rewards = Append(@, reward)])

\* this.relics.get(this.currentItem).location = location
setLocation(relics, currentItem, location) ==
  LET old == objGet(relics, currentItem)
  IN  objSet(relics, currentItem, [old EXCEPT !.location = location])

isPartLine(line) ==
  \/ startsWith(line, <<" ", " ", "-", " ">>)
  \/ (startsWith(line, <<"-", " ">>) /\ includes(line, sArrow))

handlePrimeSection(p, line) ==
  IF p.currentSection # "primes" THEN result(FALSE, FALSE, p)
  ELSE IF startsWith(line, <<"-", " ">>) /\ ~includes(line, sArrow)
  THEN LET primeName == trim(substring(line, 2))
       IN  IF primeName = <<>> THEN result(FALSE, FALSE, p)
           ELSE result(TRUE, FALSE,
                  [p EXCEPT !.currentItem = primeName,
                            !.primes = objSet(p.primes, primeName,
                                         [name |-> primeName, parts |-> <<>>])])
  ELSE IF p.currentItem # <<>> /\ isPartLine(line)
  THEN LET partInfo == parsePartInfo(line)
       IN  \* the try block catches the parse error and a missing Map entry
           IF partInfo.threw \/ ~objHas(p.primes, p.currentItem)
           THEN result(FALSE, FALSE, p)
           ELSE result(TRUE, FALSE,
                  [p EXCEPT !.primes = pushPart(p.primes, p.currentItem,
                                                partInfo.value)])
  ELSE result(FALSE, FALSE, p)

handleRelicSection(p, line) ==
  IF p.currentSection # "relics" THEN result(FALSE, FALSE, p)
  ELSE IF startsWith(line, <<"#", "#", " ">>)
  THEN LET relicName == trim(substring(line, 3))
       IN  IF relicName = <<>> THEN result(FALSE, FALSE, p)
           ELSE result(TRUE, FALSE,
                  [p EXCEPT !.currentItem = relicName,
                            !.relics = objSet(p.relics, relicName,
                                         [location |-> <<>>, rewards |-> <<>>])])
  ELSE IF p.currentItem = <<>> THEN result(FALSE, FALSE, p)
  ELSE IF startsWith(line, sLocationColon)
  THEN \* outside any try block: a missing Map entry raises a TypeError
       IF ~objHas(p.relics, p.currentItem) THEN result(FALSE, TRUE, p)
       ELSE result(TRUE, FALSE,
              [p EXCEPT !.relics = setLocation(p.relics, p.currentItem,
                   trim(join(Tail(split(line, <<":">>)), <<":">>)))])
  ELSE IF startsWith(line, <<"-", " ">>)
  THEN LET reward == parseRewardInfo(line)
       IN  IF reward.threw \/ ~objHas(p.relics, p.currentItem)
           THEN result(FALSE, FALSE, p)
           ELSE result(TRUE, FALSE,
                  [p EXCEPT !.relics = pushReward(p.relics, p.currentItem,
                                                  reward.value)])
  ELSE result(FALSE, FALSE, p)

\* The body of lines.forEach in parse: an empty line returns at once, then
\* handleSectionHeaders || handlePrimeSection || handleRelicSection.
parseLine(p, line) ==
  IF line = <<>> THEN result(FALSE, FALSE, p)
  ELSE LET a == handleSectionHeaders(p, line)
       IN  IF a.handled \/ a.threw THEN a
           ELSE LET b == handlePrimeSection(p, line)
                IN  IF b.handled \/ b.threw THEN b
                    ELSE handleRelicSection(p, line)

\* content.trim().split('\n').map(line => line.trim())
linesOf(content) ==
  mapTrim(split(trim(content), <<"\n">>))

(***************************************************************************)
(* The version of htmlConverter/htmlConverter.js.                          *)
(***************************************************************************)
parsePartAndRarity_hc(info) ==
  LET pieces == mapTrim(split(info, <<"(">>))
  IN  IF Len(pieces) >= 2 /\ pieces[2] # <<>>
      THEN <<pieces[1], replaceFirst(pieces[2], <<")">>)>>
      ELSE <<pieces[1], <<>>>>

parsePartInfo_hc(line) ==
  LET partLine == stripBullet(line)
      parts == mapTrim(split(partLine, sArrow))
      pr == parsePartAndRarity_hc(parts[1])
  IN  [part |-> pr[1], rarity |-> pr[2],
       relic |-> IF Len(parts) >= 2 THEN parts[2] ELSE Undefined]

parseRewardInfo_hc(line) ==
  LET pr == parsePartAndRarity_hc(substring(line, 2))
  IN  [part |-> pr[1], rarity |-> pr[2]]

handlePrimeSection_hc(p, line) ==
  IF p.currentSection # "primes" THEN result(FALSE, FALSE, p)
  ELSE IF startsWith(line, <<"-", " ">>) /\ ~includes(line, sArrow)
  THEN LET primeName == substring(line, 2)
       IN  result(TRUE, FALSE,
             [p EXCEPT !.currentItem = primeName,
                       !.primes = objSet(p.primes, primeName,
                                    [name |-> primeName, parts |-> <<>>])])
  ELSE IF isPartLine(line) /\ p.currentItem # <<>>
  THEN IF ~objHas(p.primes, p.currentItem) THEN result(FALSE, TRUE, p)
       ELSE result(TRUE, FALSE,
              [p EXCEPT !.primes = pushPart(p.primes, p.currentItem,
                                            parsePartInfo_hc(line))])
  ELSE result(FALSE, FALSE, p)

handleRelicSection_hc(p, line) ==
  IF p.currentSection # "relics" THEN result(FALSE, FALSE, p)
  ELSE IF startsWith(line, <<"#", "#", " ">>)
  THEN LET relicName == substring(line, 3)
       IN  result(TRUE, FALSE,
             [p EXCEPT !.currentItem = relicName,
                       !.relics = objSet(p.relics, relicName,
                                    [location |-> <<>>, rewards |-> <<>>])])
  ELSE IF startsWith(line, sLocationColon) /\ p.currentItem # <<>>
  THEN IF ~objHas(p.relics, p.currentItem) THEN result(FALSE, TRUE, p)
       ELSE result(TRUE, FALSE,
              [p EXCEPT !.relics = setLocation(p.relics, p.currentItem,
                                     trim(split(line, <<":">>)[2]))])
  ELSE IF startsWith(line, <<"-", " ">>) /\ p.currentItem # <<>>
  THEN IF ~objHas(p.relics, p.currentItem) THEN result(FALSE, TRUE, p)
       ELSE result(TRUE, FALSE,
              [p EXCEPT !.relics = pushReward(p.relics, p.currentItem,
                                              parseRewardInfo_hc(line))])
  ELSE result(FALSE, FALSE, p)

parseLine_hc(p, line) ==
  IF line = <<>> THEN result(FALSE, FALSE, p)
  ELSE LET a == handleSectionHeaders(p, line)
       IN  IF a.handled \/ a.threw THEN a
           ELSE LET b == handlePrimeSection_hc(p, line)
                IN  IF b.handled \/ b.threw THEN b
                    ELSE handleRelicSection_hc(p, line)

(***************************************************************************)
(* HTMLGenerator.separateWarframesWeapons, in both versions: the two       *)
(* buckets, each in the insertion order of the entries of primes.          *)
(***************************************************************************)
isWarframe(info) ==
  \E i \in 1..Len(info.parts) :
     \/ includes(info.parts[i].part, sSystems)
     \/ includes(info.parts[i].part, sChassis)
     \/ includes(info.parts[i].part, sNeuroptics)

isWarframe_hc(info) ==
  \E i \in 1..Len(info.parts) : includes(info.parts[i].part, sSystems)

separateWarframesWeapons(primes) ==
  [warframes |-> SelectSeq(primes, LAMBDA e : isWarframe(e.value)),
   weapons |-> SelectSeq(primes, LAMBDA e : ~isWarframe(e.value))]

separateWarframesWeapons_hc(primes) ==
  [warframes |-> SelectSeq(primes, LAMBDA e : isWarframe_hc(e.value)),
   weapons |-> SelectSeq(primes, LAMBDA e : ~isWarframe_hc(e.value))]

(***************************************************************************)
(* The script of the generated page (HTMLGenerator.getScript): utils and   *)
(* view.  A render is the sequence of the entries it shows; an entry holds *)
(* its name, whether its content is active, and every value the template   *)
(* inserts, in template order, as [slot, value, markup]: the place of the   *)
(* insertion, the value taken from the data and the text put in its place.  *)
(***************************************************************************)
\* '&amp;'
entAmp ==
  <<"&", "a", "m", "p", ";">>
\* '&lt;'
entLt ==
  <<"&", "l", "t", ";">>
\* '&gt;'
entGt ==
  <<"&", "g", "t", ";">>
\* '&quot;'
entQuot ==
  <<"&", "q", "u", "o", "t", ";">>
\* '&#039;'
entApos ==
  <<"&", "#", "0", "3", "9", ";">>
\* 'Unknown'
sUnknown ==
  <<"U", "n", "k", "n", "o", "w", "n">>
\* 'Unknown location'
sUnknownLocation ==
  <<"U", "n", "k", "n", "o", "w", "n", " ", "l", "o", "c", "a", "t", "i", "o", "n">>

UpperCase ==
  <<"A", "B", "C", "D", "E", "F", "G", "H", "I", "J", "K", "L", "M",
    "N", "O", "P", "Q", "R", "S", "T", "U", "V", "W", "X", "Y", "Z">>

LowerCase ==
  <<"a", "b", "c", "d", "e", "f", "g", "h", "i", "j", "k", "l", "m",
    "n", "o", "p", "q", "r", "s", "t", "u", "v", "w", "x", "y", "z">>

\* String.prototype.toLowerCase, on the characters of the inputs.
toLowerCase(s) ==
  [i \in 1..Len(s) |->
     IF \E k \in 1..Len(UpperCase) : UpperCase[k] = s[i]
     THEN LowerCase[CHOOSE k \in 1..Len(UpperCase) : UpperCase[k] = s[i]]
     ELSE s[i]]

\* s.replace(/c/g, rep) for a single character c.
replaceAll(s, c, rep) ==
  flatten([i \in 1..Len(s) |-> IF s[i] = c THEN rep ELSE <<s[i]>>])

escapeHtml(unsafe) ==
  replaceAll(replaceAll(replaceAll(replaceAll(replaceAll(
    unsafe, "&", entAmp), "<", entLt), ">", entGt), "\"", entQuot), "'", entApos)

\* tierOrder[tier]; 0 stands for undefined.
tierOrder(tier) ==
  IF tier = tierLith THEN 1
  ELSE IF tier = tierMeso THEN 2
  ELSE IF tier = tierNeo THEN 3
  ELSE IF tier = tierAxi THEN 4
  ELSE 0

\* tierOrder[aTier] || 99
tierValue(relic) ==
  LET v == tierOrder(split(relic, <<" ">>)[1])
  IN  IF v = 0 THEN 99 ELSE v

\* The comparator of sortRelics is negative: aTierValue - bTierValue, or
\* a.localeCompare(b) for equal tiers (on the relic names of the inputs,
\* which differ in an upper-case letter or a digit, the order of the code
\* units).
relicBefore(a, b) ==
  \/ tierValue(a) < tierValue(b)
  \/ tierValue(a) = tierValue(b) /\ stringLess(a, b)

\* relics.sort(comparator): stable.
RECURSIVE sortRelics(_)
sortRelics(relics) ==
  IF relics = <<>> THEN <<>>
  ELSE LET rest == sortRelics(Tail(relics))
           first == SelectSeq(rest, LAMBDA r : relicBefore(r, relics[1]))
           last == SelectSeq(rest, LAMBDA r : ~relicBefore(r, relics[1]))
       IN  first \o <<relics[1]>> \o last

\* [...new Set(list)]: the first occurrence of every element, in order.
RECURSIVE dedupe(_)
dedupe(list) ==
  IF list = <<>> THEN <<>>
  ELSE LET init == dedupe(SubSeq(list, 1, Len(list) - 1))
           x == list[Len(list)]
       IN  IF \E i \in 1..Len(init) : init[i] = x THEN init ELSE Append(init, x)

\* The forEach of groupParts: the Map from `part|rarity` to its group.
RECURSIVE groupInto(_, _)
groupInto(parts, grouped) ==
  IF parts = <<>> THEN grouped
  ELSE LET part == parts[1]
           key == part.part \o <<"|">> \o part.rarity
           opened == IF objHas(grouped, key) THEN grouped
                     ELSE objSet(grouped, key,
                            [part |-> part.part, rarity |-> part.rarity, relics |-> <<>>])
           pushed == IF part.relic # <<>>
                     THEN objSet(opened, key,
                            [objGet(opened, key) EXCEPT !.relics = Append(@, part.relic)])
                     ELSE opened
       IN  IF part.part = <<>> THEN groupInto(Tail(parts), grouped)
           ELSE groupInto(Tail(parts), pushed)

groupParts(parts) ==
  LET grouped == groupInto(parts, <<>>)
  IN  [i \in 1..Len(grouped) |->
         [grouped[i].value EXCEPT !.relics = sortRelics(dedupe(@))]]

\* A match on the part name only, never on the name of the relic.
partMatches_partOnly(p, term, hasRelic) ==
  p.part # <<>> /\ includes(toLowerCase(p.part), term)

\* p.part && p.part.toLowerCase().includes(term) ||
\* (p.relic && p.relic.toLowerCase().includes(term)), for a part or a reward
\* (a reward has no relic).
partMatches(p, term, hasRelic) ==
  \/ p.part # <<>> /\ includes(toLowerCase(p.part), term)
  \/ hasRelic /\ p.relic # <<>> /\ p.relic # Undefined
       /\ includes(toLowerCase(p.relic), term)

filterByCategory(items, term, category) ==
  IF term = <<>> THEN items[category]
  ELSE SelectSeq(items[category], LAMBDA e :
         \/ includes(toLowerCase(e.key), toLowerCase(term))
         \/ \E i \in 1..Len(e.value.parts) :
               partMatches(e.value.parts[i], toLowerCase(term), TRUE))

\* filterItems on state.data.relics: info.parts is undefined, so the parts
\* are info.rewards.
filterItems(items, term) ==
  IF term = <<>> THEN items
  ELSE SelectSeq(items, LAMBDA e :
         \/ includes(toLowerCase(e.key), toLowerCase(term))
         \/ \E i \in 1..Len(e.value.rewards) :
               partMatches(e.value.rewards[i], toLowerCase(term), FALSE))

\* One interpolation of a template.
insertion(slot, value, markup) ==
  [slot |-> slot, value |-> value, markup |-> markup]

\* The interpolations of one <li> of a part group of renderPrimeItem.
partItem(p) ==
  <<insertion("attribute", p.rarity, p.rarity),
    insertion("text", p.part, escapeHtml(p.part))>> \o
  flatten([r \in 1..Len(p.relics) |->
     <<insertion("handler", p.relics[r], escapeHtml(p.relics[r])),
       insertion("text", p.relics[r], escapeHtml(p.relics[r]))>>])

renderPrimeItem(name, info, expandedItems) ==
  LET escapedName == escapeHtml(name)
      groupedParts == groupParts(info.parts)
  IN  [name |-> name,
       active |-> name \in expandedItems,
       inserts |-> <<insertion("handler", name, escapedName),
                     insertion("text", name, escapedName)>> \o
                   flatten([g \in 1..Len(groupedParts) |-> partItem(groupedParts[g])])]

\* The interpolations of the reward list of a relic.
rewardItems(rewards) ==
  flatten([r \in 1..Len(rewards) |->
     <<insertion("attribute", rewards[r].rarity, rewards[r].rarity),
       insertion("text", rewards[r].part, escapeHtml(rewards[r].part))>>])

\* value || fallback
orElse(value, fallback) ==
  IF value = <<>> THEN fallback ELSE value

\* renderPrimes: the two categories, warframes first.  The template text
\* around them is never empty, so the "no primes found" text never shows.
renderPrimes(data, term, expandedItems) ==
  LET shown(category) ==
        LET filtered == filterByCategory(data.primes, term, category)
        IN  [i \in 1..Len(filtered) |->
               renderPrimeItem(filtered[i].key, filtered[i].value, expandedItems)]
  IN  [noResults |-> FALSE, entries |-> shown("warframes") \o shown("weapons")]

renderRelics(data, term, expandedItems) ==
  LET filtered == filterItems(data.relics, term)
  IN  [noResults |-> filtered = <<>>,
       entries |-> [i \in 1..Len(filtered) |->
          [name |-> filtered[i].key,
           active |-> filtered[i].key \in expandedItems,
           inserts |->
             <<insertion("handler", filtered[i].key, escapeHtml(filtered[i].key)),
               insertion("text", filtered[i].key, escapeHtml(filtered[i].key)),
               insertion("text", orElse(filtered[i].value.location, sUnknown),
                         escapeHtml(orElse(filtered[i].value.location, sUnknown)))>>
             \o rewardItems(filtered[i].value.rewards)]]]

renderRelicPopup(data, relicName) ==
  IF ~objHas(data.relics, relicName) THEN [found |-> FALSE, inserts |-> <<>>]
  ELSE LET relic == objGet(data.relics, relicName)
       IN  [found |-> TRUE,
            inserts |->
              <<insertion("text", relicName, escapeHtml(relicName)),
                insertion("text", orElse(relic.location, sUnknownLocation),
                          escapeHtml(orElse(relic.location, sUnknownLocation)))>>
              \o rewardItems(relic.rewards)]

\* The content that updateDisplay computes.
contentOf(data, currentTab, searchTerm, expandedItems) ==
  IF currentTab = "primes" THEN renderPrimes(data, searchTerm, expandedItems)
  ELSE renderRelics(data, searchTerm, expandedItems)

(***************************************************************************)
(* The script of the page that htmlConverter/htmlConverter.js generates.   *)
(***************************************************************************)
\* tierOrder[aTier] - tierOrder[bTier] is negative; with a tier outside
\* tierOrder the difference is NaN and the two compare as equal.
relicBefore_hc(a, b) ==
  LET ta == tierOrder(split(a, <<" ">>)[1])
      tb == tierOrder(split(b, <<" ">>)[1])
  IN  ta # 0 /\ tb # 0 /\ ta < tb

RECURSIVE sortRelics_hc(_)
sortRelics_hc(relics) ==
  IF relics = <<>> THEN <<>>
  ELSE LET rest == sortRelics_hc(Tail(relics))
           first == SelectSeq(rest, LAMBDA r : relicBefore_hc(r, relics[1]))
           last == SelectSeq(rest, LAMBDA r : ~relicBefore_hc(r, relics[1]))
       IN  first \o <<relics[1]>> \o last

RECURSIVE groupInto_hc(_, _)
groupInto_hc(parts, grouped) ==
  IF parts = <<>> THEN grouped
  ELSE LET part == parts[1]
           key == part.part \o <<"|">> \o part.rarity
           opened == IF objHas(grouped, key) THEN grouped
                     ELSE objSet(grouped, key,
                            [part |-> part.part, rarity |-> part.rarity, relics |-> <<>>])
       IN  groupInto_hc(Tail(parts),
             objSet(opened, key,
               [objGet(opened, key) EXCEPT !.relics = Append(@, part.relic)]))

groupParts_hc(parts) ==
  LET grouped == groupInto_hc(parts, <<>>)
  IN  [i \in 1..Len(grouped) |->
         [grouped[i].value EXCEPT !.relics = sortRelics_hc(dedupe(@))]]

\* p.part.toLowerCase().includes(term) ||
\* (p.relic && p.relic.toLowerCase().includes(term))
partMatches_hc(p, term, hasRelic) ==
  \/ includes(toLowerCase(p.part), term)
  \/ hasRelic /\ p.relic # <<>> /\ p.relic # Undefined
       /\ includes(toLowerCase(p.relic), term)

filterByCategory_hc(items, term, category) ==
  SelectSeq(items[category], LAMBDA e :
    \/ includes(toLowerCase(e.key), toLowerCase(term))
    \/ \E i \in 1..Len(e.value.parts) :
          partMatches_hc(e.value.parts[i], toLowerCase(term), TRUE))

filterItems_hc(items, term) ==
  SelectSeq(items, LAMBDA e :
    \/ includes(toLowerCase(e.key), toLowerCase(term))
    \/ \E i \in 1..Len(e.value.rewards) :
          partMatches_hc(e.value.rewards[i], toLowerCase(term), FALSE))

partItem_hc(p) ==
  <<insertion("attribute", p.rarity, p.rarity),
    insertion("text", p.part, p.part)>> \o
  flatten([r \in 1..Len(p.relics) |->
     <<insertion("handler", p.relics[r], p.relics[r]),
       insertion("text", p.relics[r], p.relics[r])>>])

renderPrimeItem_hc(name, info, expandedItems) ==
  LET groupedParts == groupParts_hc(info.parts)
  IN  [name |-> name,
       active |-> name \in expandedItems,
       inserts |-> <<insertion("handler", name, name),
                     insertion("text", name, name)>> \o
                   flatten([g \in 1..Len(groupedParts) |-> partItem_hc(groupedParts[g])])]

rewardItems_hc(rewards) ==
  flatten([r \in 1..Len(rewards) |->
     <<insertion("attribute", rewards[r].rarity, rewards[r].rarity),
       insertion("text", rewards[r].part, rewards[r].part)>>])

renderPrimes_hc(data, term, expandedItems) ==
  LET shown(category) ==
        LET filtered == filterByCategory_hc(data.primes, term, category)
        IN  [i \in 1..Len(filtered) |->
               renderPrimeItem_hc(filtered[i].key, filtered[i].value, expandedItems)]
  IN  [noResults |-> FALSE, entries |-> shown("warframes") \o shown("weapons")]

renderRelics_hc(data, term, expandedItems) ==
  LET filtered == filterItems_hc(data.relics, term)
  IN  [noResults |-> filtered = <<>>,
       entries |-> [i \in 1..Len(filtered) |->
          [name |-> filtered[i].key,
           active |-> filtered[i].key \in expandedItems,
           inserts |->
             <<insertion("handler", filtered[i].key, filtered[i].key),
               insertion("text", filtered[i].key, filtered[i].key),
               insertion("text", filtered[i].value.location,
                         filtered[i].value.location)>>
             \o rewardItems_hc(filtered[i].value.rewards)]]]

renderRelicPopup_hc(data, relicName) ==
  IF ~objHas(data.relics, relicName) THEN [found |-> FALSE, inserts |-> <<>>]
  ELSE LET relic == objGet(data.relics, relicName)
       IN  [found |-> TRUE,
            inserts |->
              <<insertion("text", relicName, relicName),
                insertion("text", relic.location, relic.location)>>
              \o rewardItems_hc(relic.rewards)]

contentOf_hc(data, currentTab, searchTerm, expandedItems) ==
  IF currentTab = "primes" THEN renderPrimes_hc(data, searchTerm, expandedItems)
  ELSE renderRelics_hc(data, searchTerm, expandedItems)

(***************************************************************************)
(* Inputs: the pages the extractor may fetch and the markdown files the    *)
(* renderer may be given.                                                  *)
(***************************************************************************)
td(text) ==
  [tag |-> "td", text |-> text]

th(text) ==
  [tag |-> "th", text |-> text]

row(cells) ==
  [blank |-> FALSE, cells |-> cells]

blankRow ==
  [blank |-> TRUE, cells |-> <<td(<<" ">>)>>]

\* A mission row of the page: the reward and its drop chance.
listedRow(name) ==
  row(<<td(name), td(txtUncommon)>>)

\* A reward row of a relic table.
rewardRow(item, chance) ==
  row(<<td(item), td(chance)>>)

\* A block of a table that the page may hold or lack.
absent ==
  [present |-> FALSE, rows |-> <<>>]

present(rows) ==
  [present |-> TRUE, rows |-> rows]

\* The rows a sub-table may list under its heading.
ListingsHepit ==
  { absent,
    present(<<row(<<th(txtRewards)>>), listedRow(relicLithA), listedRow(txtCredits)>>),
    present(<<listedRow(relicLithA), listedRow(relicNeoB)>>) }

ListingsUkko ==
  { absent,
    present(<<listedRow(<<" ">> \o relicNeoB \o <<" ">>)>>),
    present(<<listedRow(relicNeoB), listedRow(relicLithA)>>) }

ListingsApollo ==
  { absent,
    present(<<listedRow(relicNeoB), listedRow(relicOddC)>>) }

\* The reward tables a relic may have.
TablesLithA ==
  { absent,
    present(<<rewardRow(itemVoltSystems, txtRare), rewardRow(itemForma, txtUncommon),
      rewardRow(itemBratonStock, txtCommon)>>),
    present(<<rewardRow(itemVoltChassis, txtCommon),
      row(<<th(txtRewards), td(itemEndo), td(txtTwelve)>>),
      rewardRow(itemVoltSystems, txtLegendary)>>),
    present(<<rewardRow(itemAkLink, txtBoth), rewardRow(itemPrimeForma, txtRare)>>),
    present(<<rewardRow(itemBratonStock, txtCommon), row(<<td(itemForma)>>)>>) }

TablesNeoB ==
  { absent,
    present(<<rewardRow(itemBratonStock, txtRare), rewardRow(itemVoltChassis, txtUncommon),
      rewardRow(itemVoltSystems, txtCommon)>>),
    present(<<rewardRow(itemVoltChassis, txtLegendary), rewardRow(itemBratonStock, txtUncommon),
      rewardRow(itemForma, txtLegendary)>>) }

TablesOddC ==
  { present(<<rewardRow(itemBratonStock, txtUncommon)>>),
    present(<<rewardRow(itemPrimedFlow, txtRare)>>) }

\* The blocks of one table, separated by blank rows.
RECURSIVE tableOf(_)
tableOf(blocks) ==
  IF blocks = <<>> THEN <<>>
  ELSE IF Len(blocks) = 1 THEN blocks[1]
  ELSE blocks[1] \o <<blankRow>> \o tableOf(Tail(blocks))

block(heading, option) ==
  IF option.present THEN <<<<row(<<th(heading)>>)>> \o option.rows>> ELSE <<>>

Pages ==
  { << tableOf(block(titleHepit, h) \o block(titleUkko, u) \o block(titleApollo, a)),
       tableOf(block(relicLithA \o sIntact, ta) \o block(relicNeoB \o sIntact, tb)
               \o block(relicOddC \o sIntact, tc)) >> :
      h \in ListingsHepit, u \in ListingsUkko, a \in ListingsApollo,
      ta \in TablesLithA, tb \in TablesNeoB, tc \in TablesOddC }

\* The lines a hand-written markdown file may hold after its opening lines.
HandLines ==
  { hdrPrimes, hdrRelics, lnVoltPrime, lnPartSystems, lnPartNoArrow,
    lnRelicLithA, lnRelicEmpty, lnLocation, lnBadLineNoParen, lnRewardForma,
    lnText, lnArrowOnly, sConstructor, <<>> }

\* The opening lines of a hand-written file.
HandOpenings ==
  { <<>>,
    <<hdrPrimes, lnVoltPrime>>,
    <<hdrRelics, lnRelicLithA, lnRewardStock>> }

\* The number of lines that follow the opening lines.
MaxHandLines ==
  2

RECURSIVE linesUpTo(_)
linesUpTo(n) ==
  IF n = 0 THEN {<<>>}
  ELSE linesUpTo(n - 1) \cup
       {Append(ls, l) : ls \in {x \in linesUpTo(n - 1) : Len(x) = n - 1},
                          l \in HandLines}

HandFiles ==
  {join(o \o ls, <<"\n">>) \o <<"\n">> : o \in HandOpenings, ls \in linesUpTo(MaxHandLines)}

(***************************************************************************)
(* State.                                                                  *)
(***************************************************************************)
VARIABLES
  impl,             \* the version of the renderer that runs
  page,             \* the page at the fixed URL
  mdFile,           \* currentPrimes.md: [exists, content, by]
  xpc,              \* extractor: the position of main
  document,         \* extractor: the result of fetchAndParseHTML
  relicData,        \* extractor: data of main
  primes,           \* extractor: primes of main
  markdownContent,  \* extractor: markdownContent of main
  rpc,              \* renderer: the position of convertMarkdownToHTML
  lines,            \* renderer: the lines parse has not yet visited
  parser,           \* renderer: the WarframeDataParser object
  parsedData,       \* renderer: parsedData of convertMarkdownToHTML
  htmlFile,         \* index.html: [exists, data]
  upc,              \* page: "closed", or "open" once controller.init has run
  currentTab,       \* page: state.currentTab
  expandedItems,    \* page: state.expandedItems
  searchTerm,       \* page: state.searchTerm
  relicPopupVisible, \* page: state.relicPopupVisible
  searchInput,      \* page: the value of the search box
  timeout,          \* page: the timer of the debounced input listener
  popupTimeout,     \* page: the timer controller.popupTimeout refers to
  orphans,          \* page: delayed-hide timers no handle refers to any more
  popup,            \* page: the relicPopup element: [display, content]
  mainContent,      \* page: the content of the mainContent element
  sinceInput,       \* clock: ticks since the last input event, up to WaitTicks
  updates,          \* clock: debounced updates since the last input event
  tabClicked        \* clock: a tab was clicked and no input event came since

vars ==
  <<impl, page, mdFile, xpc, document, relicData, primes, markdownContent,
    rpc, lines, parser, parsedData, htmlFile,
    upc, currentTab, expandedItems, searchTerm, relicPopupVisible, searchInput,
    timeout, popupTimeout, orphans, popup, mainContent, sinceInput, updates,
    tabClicked>>

uiVars ==
  <<upc, currentTab, expandedItems, searchTerm, relicPopupVisible, searchInput,
    timeout, popupTimeout, orphans, popup, mainContent, sinceInput, updates,
    tabClicked>>

pipelineVars ==
  <<impl, page, mdFile, xpc, document, relicData, primes, markdownContent,
    rpc, lines, parser, parsedData, htmlFile>>

extractorVars ==
  <<xpc, document, relicData, primes, markdownContent>>

rendererVars ==
  <<rpc, lines, parser, parsedData, htmlFile>>

noFile ==
  [exists |-> FALSE, content |-> <<>>, by |-> "nobody"]

noData ==
  [primes |-> <<>>, relics |-> <<>>]

noHtml ==
  [exists |-> FALSE, data |-> noData]

\* The quiet period of debounce and the delay of the popup, 300 ms, in ticks
\* of the clock.
WaitTicks ==
  3

\* A timer: armed with a number of ticks left, or not armed.
noTimer ==
  [armed |-> FALSE, left |-> 0]

timerOf(ticks) ==
  [armed |-> TRUE, left |-> ticks]

noContent ==
  [noResults |-> FALSE, entries |-> <<>>]

noPopup ==
  [display |-> "none", content |-> [found |-> FALSE, inserts |-> <<>>]]

\* The page before it is opened: the initial values of its script.
InitPage ==
  /\ upc = "closed"
  /\ currentTab = "primes"
  /\ expandedItems = {}
  /\ searchTerm = <<>>
  /\ relicPopupVisible = FALSE
  /\ searchInput = <<>>
  /\ timeout = noTimer
  /\ popupTimeout = noTimer
  /\ orphans = {}
  /\ popup = noPopup
  /\ mainContent = noContent
  /\ sinceInput = WaitTicks
  /\ updates = 0
  /\ tabClicked = FALSE

Init ==
  /\ impl \in {"part_000", "htmlConverter"}
  /\ \/ page \in Pages /\ mdFile = noFile
     \/ /\ page = <<>>
        /\ mdFile \in {[exists |-> TRUE, content |-> c, by |-> "hand"] : c \in HandFiles}
  /\ xpc = "start"
  /\ document = [isNull |-> TRUE, tables |-> <<>>]
  /\ relicData = <<>>
  /\ primes = <<>>
  /\ markdownContent = <<>>
  /\ rpc = "start"
  /\ lines = <<>>
  /\ parser = newParser
  /\ parsedData = noData
  /\ htmlFile = noHtml
  /\ InitPage

(***************************************************************************)
(* The extractor: main of currentPrimes/main.js.                           *)
(***************************************************************************)
\* fetchAndParseHTML: the response is ok and the page is parsed.
FetchOk ==
  /\ xpc = "start"
  /\ document' = [isNull |-> FALSE, tables |-> page]
  /\ xpc' = "fetched"
  /\ UNCHANGED <<impl, page, mdFile, relicData, primes, markdownContent>>
  /\ UNCHANGED rendererVars
  /\ UNCHANGED uiVars

\* fetchAndParseHTML: a transport error or a status that is not ok; the
\* error is caught and null returned.
FetchFail ==
  /\ xpc = "start"
  /\ document' = [isNull |-> TRUE, tables |-> <<>>]
  /\ xpc' = "fetched"
  /\ UNCHANGED <<impl, page, mdFile, relicData, primes, markdownContent>>
  /\ UNCHANGED rendererVars
  /\ UNCHANGED uiVars

\* An extractor that leaves an empty markdown file behind when it fails.
ExtractSubTableData_emptyFile ==
  /\ xpc = "fetched"
  /\ LET got == IF document.isNull THEN [threw |-> FALSE, relicData |-> <<>>]
                ELSE extractSubTableData(document.tables, subTableTitles)
         failed == got.threw \/ got.relicData = <<>>
     IN  /\ relicData' = got.relicData
         /\ xpc' = IF failed THEN "exit1" ELSE "extracted"
         /\ mdFile' = IF failed
                      THEN [exists |-> TRUE, content |-> <<>>, by |-> "extractor"]
                      ELSE mdFile
  /\ UNCHANGED <<impl, page, document, primes, markdownContent>>
  /\ UNCHANGED rendererVars
  /\ UNCHANGED uiVars

\* The rest of extractSubTableData and the check of main that follows it:
\* no relic, or an exception of a locator, ends main in its catch block.
ExtractSubTableData ==
  /\ xpc = "fetched"
  /\ LET got == IF document.isNull THEN [threw |-> FALSE, relicData |-> <<>>]
                ELSE extractSubTableData(document.tables, subTableTitles)
     IN  /\ relicData' = got.relicData
         /\ xpc' = IF got.threw \/ got.relicData = <<>> THEN "exit1" ELSE "extracted"
  /\ UNCHANGED <<impl, page, mdFile, document, primes, markdownContent>>
  /\ UNCHANGED rendererVars
  /\ UNCHANGED uiVars

\* cleanAndOrderRelics (its result is not used) and extractPrimes.
ExtractPrimes ==
  /\ xpc = "extracted"
  /\ primes' = extractPrimes(relicData)
  /\ xpc' = "grouped"
  /\ UNCHANGED <<impl, page, mdFile, document, relicData, markdownContent>>
  /\ UNCHANGED rendererVars
  /\ UNCHANGED uiVars

\* generateMarkdown; its sort of each parts array is in place.
GenerateMarkdown ==
  /\ xpc = "grouped"
  /\ markdownContent' = generateMarkdown(primes, relicData, relicLocations, dateText)
  /\ primes' = [i \in 1..Len(primes) |->
                  [key |-> primes[i].key, value |-> sortItems(primes[i].value)]]
  /\ xpc' = "serialized"
  /\ UNCHANGED <<impl, page, mdFile, document, relicData>>
  /\ UNCHANGED rendererVars
  /\ UNCHANGED uiVars

\* fs.writeFileSync succeeds.
WriteMarkdown ==
  /\ xpc = "serialized"
  /\ mdFile' = [exists |-> TRUE, content |-> markdownContent, by |-> "extractor"]
  /\ xpc' = "exit0"
  /\ UNCHANGED <<impl, page, document, relicData, primes, markdownContent>>
  /\ UNCHANGED rendererVars
  /\ UNCHANGED uiVars

\* fs.writeFileSync throws; the catch block of main exits with 1.
WriteMarkdownFail ==
  /\ xpc = "serialized"
  /\ xpc' = "exit1"
  /\ UNCHANGED <<impl, page, mdFile, document, relicData, primes, markdownContent>>
  /\ UNCHANGED rendererVars
  /\ UNCHANGED uiVars

(***************************************************************************)
(* The renderer: WarframeConverter.convertMarkdownToHTML, run once the     *)
(* extractor has ended (the workflow runs the two one after the other).    *)
(***************************************************************************)
extractorEnded ==
  xpc \in {"exit0", "exit1"}

\* fs.promises.readFile and the first statement of parse.
ReadMarkdown ==
  /\ extractorEnded
  /\ rpc = "start"
  /\ mdFile.exists
  /\ lines' = linesOf(mdFile.content)
  /\ parser' = newParser
  /\ rpc' = "parsing"
  /\ UNCHANGED <<impl, page, mdFile, parsedData, htmlFile>>
  /\ UNCHANGED extractorVars
  /\ UNCHANGED uiVars

\* fs.promises.readFile rejects: there is no such file.
ReadMarkdownFail ==
  /\ extractorEnded
  /\ rpc = "start"
  /\ ~mdFile.exists
  /\ rpc' = "exit1"
  /\ UNCHANGED <<impl, page, mdFile, lines, parser, parsedData, htmlFile>>
  /\ UNCHANGED extractorVars
  /\ UNCHANGED uiVars

\* What the running version of the parser does with one line.
stepOf(version, p, line) ==
  IF version = "part_000" THEN parseLine(p, line) ELSE parseLine_hc(p, line)

\* One iteration of lines.forEach in parse.
ParseLine ==
  /\ rpc = "parsing"
  /\ lines # <<>>
  /\ LET r == stepOf(impl, parser, Head(lines))
     IN  IF r.threw
         THEN /\ rpc' = "exit1"
              /\ UNCHANGED <<lines, parser>>
         ELSE /\ parser' = r.parser
              /\ lines' = Tail(lines)
              /\ rpc' = rpc
  /\ UNCHANGED <<impl, page, mdFile, parsedData, htmlFile>>
  /\ UNCHANGED extractorVars
  /\ UNCHANGED uiVars

\* The return statement of parse.
ParseReturn ==
  /\ rpc = "parsing"
  /\ lines = <<>>
  /\ parsedData' = [primes |-> parser.primes, relics |-> parser.relics]
  /\ rpc' = "parsed"
  /\ UNCHANGED <<impl, page, mdFile, lines, parser, htmlFile>>
  /\ UNCHANGED extractorVars
  /\ UNCHANGED uiVars

separateOf(version, ps) ==
  IF version = "part_000" THEN separateWarframesWeapons(ps)
  ELSE separateWarframesWeapons_hc(ps)

\* HTMLGenerator.generateHTML: data.primes = separated.
GenerateHTML ==
  /\ rpc = "parsed"
  /\ parsedData' = [parsedData EXCEPT !.primes = separateOf(impl, parsedData.primes)]
  /\ rpc' = "generated"
  /\ UNCHANGED <<impl, page, mdFile, lines, parser, htmlFile>>
  /\ UNCHANGED extractorVars
  /\ UNCHANGED uiVars

\* fs.promises.writeFile succeeds: the page holds the dataset in its script.
WriteHtml ==
  /\ rpc = "generated"
  /\ htmlFile' = [exists |-> TRUE, data |-> parsedData]
  /\ rpc' = "exit0"
  /\ UNCHANGED <<impl, page, mdFile, lines, parser, parsedData>>
  /\ UNCHANGED extractorVars
  /\ UNCHANGED uiVars

\* A renderer whose catch block does not end the process with 1.
WriteHtmlFail_silent ==
  /\ rpc = "generated"
  /\ rpc' = "exit0"
  /\ UNCHANGED <<impl, page, mdFile, lines, parser, parsedData, htmlFile>>
  /\ UNCHANGED extractorVars
  /\ UNCHANGED uiVars

\* fs.promises.writeFile rejects; the process exits with 1.
WriteHtmlFail ==
  /\ rpc = "generated"
  /\ rpc' = "exit1"
  /\ UNCHANGED <<impl, page, mdFile, lines, parser, parsedData, htmlFile>>
  /\ UNCHANGED extractorVars
  /\ UNCHANGED uiVars

Next ==
  \/ FetchOk
  \/ FetchFail
  \/ ExtractSubTableData
  \/ ExtractPrimes
  \/ GenerateMarkdown
  \/ WriteMarkdown
  \/ WriteMarkdownFail
  \/ ReadMarkdown
  \/ ReadMarkdownFail
  \/ ParseLine
  \/ ParseReturn
  \/ GenerateHTML
  \/ WriteHtml
  \/ WriteHtmlFail

Spec ==
  Init /\ [][Next]_vars

(***************************************************************************)
(* The generated page in a browser: controller of the page's script.  The  *)
(* page is opened on an index.html that the renderer wrote from a markdown *)
(* file.                                                                   *)
(***************************************************************************)
\* '  - Volt Prime Systems (Rare) -> Neo B2 Relic'
lnPartSystemsNeo ==
  <<" ", " ", "-", " ", "V", "o", "l", "t", " ", "P", "r", "i", "m", "e", " ", "S", "y", "s", "t", "e", "m", "s", " ", "(", "R", "a", "r", "e", ")", " ", "-", ">", " ", "N", "e", "o", " ", "B", "2", " ", "R", "e", "l", "i", "c">>
\* '- Braton Prime'
lnBratonPrime ==
  <<"-", " ", "B", "r", "a", "t", "o", "n", " ", "P", "r", "i", "m", "e">>
\* '  - Braton Prime Stock (Common) -> Neo B2 Relic'
lnPartStock ==
  <<" ", " ", "-", " ", "B", "r", "a", "t", "o", "n", " ", "P", "r", "i", "m", "e", " ", "S", "t", "o", "c", "k", " ", "(", "C", "o", "m", "m", "o", "n", ")", " ", "-", ">", " ", "N", "e", "o", " ", "B", "2", " ", "R", "e", "l", "i", "c">>
\* '## Neo B2 Relic'
lnRelicNeoB ==
  <<"#", "#", " ", "N", "e", "o", " ", "B", "2", " ", "R", "e", "l", "i", "c">>
\* '- Volt Prime Systems (Rare)'
lnRewardSystems ==
  <<"-", " ", "V", "o", "l", "t", " ", "P", "r", "i", "m", "e", " ", "S", "y", "s", "t", "e", "m", "s", " ", "(", "R", "a", "r", "e", ")">>
\* '- Ak & "Bo" Prime'
lnAkPrime ==
  <<"-", " ", "A", "k", " ", "&", " ", "\"", "B", "o", "\"", " ", "P", "r", "i", "m", "e">>
\* '  - Ak <b>Link</b> (R"x) -> Lith A1 Relic'
lnPartAkLink ==
  <<" ", " ", "-", " ", "A", "k", " ", "<", "b", ">", "L", "i", "n", "k", "<", "/", "b", ">", " ", "(", "R", "\"", "x", ")", " ", "-", ">", " ", "L", "i", "t", "h", " ", "A", "1", " ", "R", "e", "l", "i", "c">>
\* '- Ak <b>Link</b> (R"x)'
lnRewardAkLink ==
  <<"-", " ", "A", "k", " ", "<", "b", ">", "L", "i", "n", "k", "<", "/", "b", ">", " ", "(", "R", "\"", "x", ")">>
\* 'VOLT'
termVolt ==
  <<"V", "O", "L", "T">>
\* 'a1'
termA1 ==
  <<"a", "1">>

\* The markdown files behind the pages that are opened: one as the extractor
\* writes them, one with characters that mean something in markup.
uiPlainFile ==
  <<hdrPrimes, lnVoltPrime, lnPartSystemsNeo, lnPartSystems, lnBratonPrime,
    lnPartStock, hdrRelics, lnRelicLithA, lnRewardSystems, lnLocation,
    lnRelicNeoB, lnRewardSystems, lnRewardStock>>

uiMarkupFile ==
  <<hdrPrimes, lnAkPrime, lnPartAkLink, hdrRelics, lnRelicLithA, lnRewardAkLink>>

UiFiles ==
  {join(f, <<"\n">>) \o <<"\n">> : f \in {uiPlainFile, uiMarkupFile}}

\* What the user may type into the search box.
InputValues ==
  {<<>>, termVolt, termA1}

\* parse: lines.forEach over all the lines.
RECURSIVE parseAll(_, _, _)
parseAll(version, p, ls) ==
  IF ls = <<>> THEN p
  ELSE parseAll(version, stepOf(version, p, Head(ls)).parser, Tail(ls))

\* The renderer has run on one of the files and has written index.html.
InitUI ==
  /\ impl \in {"part_000", "htmlConverter"}
  /\ page = <<>>
  /\ xpc = "exit1"
  /\ document = [isNull |-> FALSE, tables |-> <<>>]
  /\ relicData = <<>>
  /\ primes = <<>>
  /\ markdownContent = <<>>
  /\ rpc = "exit0"
  /\ lines = <<>>
  /\ \E c \in UiFiles :
        /\ mdFile = [exists |-> TRUE, content |-> c, by |-> "hand"]
        /\ parser = parseAll(impl, newParser, linesOf(c))
  /\ parsedData = [primes |-> separateOf(impl, parser.primes),
                   relics |-> parser.relics]
  /\ htmlFile = [exists |-> TRUE, data |-> parsedData]
  /\ InitPage

\* view.updateDisplay of the running version, for given state fields.
rendered(tab, term, expanded) ==
  IF impl = "part_000" THEN contentOf(htmlFile.data, tab, term, expanded)
  ELSE contentOf_hc(htmlFile.data, tab, term, expanded)

\* view.renderRelicPopup of the running version.
popupContentOf(relicName) ==
  IF impl = "part_000" THEN renderRelicPopup(htmlFile.data, relicName)
  ELSE renderRelicPopup_hc(htmlFile.data, relicName)

\* The name reaches the inline handler as it is in the data: it holds no
\* character that the markup or the quoted argument would change.
callable(name) ==
  escapeHtml(name) = name /\ ~includes(name, <<"\\">>)

\* The relics that the content shows in hover spans: those of the parts of
\* the active entries of the primes tab.
hoverRelics ==
  IF currentTab # "primes" THEN {}
  ELSE LET active == {mainContent.entries[j] :
                        j \in {n \in 1..Len(mainContent.entries) :
                                 mainContent.entries[n].active}}
           spans(e) == {e.inserts[k].value :
                          k \in {n \in 3..Len(e.inserts) :
                                   e.inserts[n].slot = "handler"}}
       IN  UNION {spans(e) : e \in active}

\* controller.hideRelicPopup
hideRelicPopup ==
  /\ popupTimeout' = noTimer
  /\ relicPopupVisible' = FALSE
  /\ popup' = [popup EXCEPT !.display = "none"]

\* controller.init on DOMContentLoaded: the listeners and the first render.
OpenPage ==
  /\ upc = "closed"
  /\ htmlFile.exists
  /\ upc' = "open"
  /\ mainContent' = rendered(currentTab, searchTerm, expandedItems)
  /\ UNCHANGED <<currentTab, expandedItems, searchTerm, relicPopupVisible,
                 searchInput, timeout, popupTimeout, orphans, popup,
                 sinceInput, updates>>
  /\ UNCHANGED <<tabClicked, pipelineVars>>

\* One tick of the clock of the browser.  A timer that has run down waits
\* for its callback, which the event loop may run late.
tickDown(timer) ==
  IF timer.armed /\ timer.left > 0 THEN timerOf(timer.left - 1) ELSE timer

Tick ==
  /\ upc = "open"
  /\ \/ timeout.armed /\ timeout.left > 0
     \/ popupTimeout.armed /\ popupTimeout.left > 0
     \/ \E n \in orphans : n > 0
     \/ sinceInput < WaitTicks
  /\ timeout' = tickDown(timeout)
  /\ popupTimeout' = tickDown(popupTimeout)
  /\ orphans' = {IF n > 0 THEN n - 1 ELSE 0 : n \in orphans}
  /\ sinceInput' = IF sinceInput < WaitTicks THEN sinceInput + 1 ELSE sinceInput
  /\ UNCHANGED <<upc, currentTab, expandedItems, searchTerm, relicPopupVisible,
                 searchInput, popup, mainContent, updates>>
  /\ UNCHANGED <<tabClicked, pipelineVars>>

\* An input listener that sets a timer only when none is pending.
InputEvent_keepsTimer ==
  /\ upc = "open"
  /\ \E v \in InputValues :
        /\ v # searchInput
        /\ searchInput' = v
  /\ timeout' = IF timeout.armed THEN timeout ELSE timerOf(WaitTicks)
  /\ sinceInput' = 0
  /\ updates' = 0
  /\ tabClicked' = FALSE
  /\ UNCHANGED <<upc, currentTab, expandedItems, searchTerm, relicPopupVisible,
                 popupTimeout, orphans, popup, mainContent>>
  /\ UNCHANGED pipelineVars

\* An input event on the search box: the function that debounce returns
\* clears the pending timer and sets a new one.
InputEvent ==
  /\ upc = "open"
  /\ \E v \in InputValues :
        /\ v # searchInput
        /\ searchInput' = v
  /\ timeout' = timerOf(WaitTicks)
  /\ sinceInput' = 0
  /\ updates' = 0
  /\ tabClicked' = FALSE
  /\ UNCHANGED <<upc, currentTab, expandedItems, searchTerm, relicPopupVisible,
                 popupTimeout, orphans, popup, mainContent>>
  /\ UNCHANGED pipelineVars

\* A debounced listener that sets the search term and does not render.
SearchUpdate_noRender ==
  /\ upc = "open"
  /\ timeout.armed
  /\ timeout.left = 0
  /\ searchTerm' = searchInput
  /\ timeout' = noTimer
  /\ updates' = updates + 1
  /\ UNCHANGED <<upc, currentTab, expandedItems, relicPopupVisible, searchInput,
                 popupTimeout, orphans, popup, sinceInput, mainContent>>
  /\ UNCHANGED <<tabClicked, pipelineVars>>

\* The callback of the debounce timer: the listener reads the value the box
\* has now, then view.updateDisplay.
SearchUpdate ==
  /\ upc = "open"
  /\ timeout.armed
  /\ timeout.left = 0
  /\ searchTerm' = searchInput
  /\ mainContent' = rendered(currentTab, searchInput, expandedItems)
  /\ timeout' = noTimer
  /\ updates' = updates + 1
  /\ UNCHANGED <<upc, currentTab, expandedItems, relicPopupVisible, searchInput,
                 popupTimeout, orphans, popup, sinceInput>>
  /\ UNCHANGED <<tabClicked, pipelineVars>>

\* A click on a tab button: the listener of the button, then, in part_000,
\* the click listener of the document, which hides the popup once more.
TabClickOn(tab) ==
  /\ upc = "open"
  /\ currentTab' = tab
  /\ mainContent' = rendered(tab, <<>>, {})
  /\ searchTerm' = <<>>
  /\ expandedItems' = {}
  /\ tabClicked' = TRUE
  /\ IF impl = "part_000"
     THEN /\ searchInput' = <<>>
          /\ hideRelicPopup
     ELSE UNCHANGED <<searchInput, popupTimeout, relicPopupVisible, popup>>
  /\ UNCHANGED <<upc, timeout, orphans, sinceInput, updates>>
  /\ UNCHANGED pipelineVars

\* The tab buttons of the page.
Tabs == {"primes", "relics"}

TabClick ==
  \E tab \in Tabs : TabClickOn(tab)

\* toggleItem that only ever adds the name.
toggled_addOnly(name) ==
  expandedItems \cup {name}

\* controller.toggleItem, then view.updateDisplay
toggled(name) ==
  IF name \in expandedItems THEN expandedItems \ {name}
  ELSE expandedItems \cup {name}

\* A click on the header of a shown entry: the inline handler calls
\* controller.toggleItem; in part_000 the click listener of the document
\* then hides the popup.
ToggleItem ==
  /\ upc = "open"
  /\ \E i \in 1..Len(mainContent.entries) :
        /\ callable(mainContent.entries[i].name)
        /\ expandedItems' = toggled(mainContent.entries[i].name)
  /\ mainContent' = rendered(currentTab, searchTerm, expandedItems')
  /\ IF impl = "part_000" THEN hideRelicPopup
     ELSE UNCHANGED <<popupTimeout, relicPopupVisible, popup>>
  /\ UNCHANGED <<upc, currentTab, searchTerm, searchInput, timeout, orphans,
                 sinceInput, updates>>
  /\ UNCHANGED <<tabClicked, pipelineVars>>

\* mouseover on a relic span: controller.showRelicPopup.
ShowRelicPopup ==
  /\ upc = "open"
  /\ \E r \in hoverRelics :
        /\ callable(r)
        /\ popup' = [display |-> "block", content |-> popupContentOf(r)]
  /\ IF impl = "part_000"
     THEN popupTimeout' = noTimer /\ relicPopupVisible' = TRUE
     ELSE UNCHANGED <<popupTimeout, relicPopupVisible>>
  /\ UNCHANGED <<upc, currentTab, expandedItems, searchTerm, searchInput,
                 timeout, orphans, mainContent, sinceInput, updates>>
  /\ UNCHANGED <<tabClicked, pipelineVars>>

\* The most replaced delayed-hide timers that are pending at one time.
MaxOrphans ==
  1

\* controller.hideRelicPopupWithDelay: the new timer takes the place of the
\* one popupTimeout referred to, which stays pending.
hideRelicPopupWithDelay ==
  /\ relicPopupVisible' = FALSE
  /\ popupTimeout' = timerOf(WaitTicks)
  /\ orphans' = IF popupTimeout.armed THEN orphans \cup {popupTimeout.left}
                ELSE orphans
  /\ Cardinality(orphans') <= MaxOrphans
  /\ UNCHANGED popup

\* mouseout of a relic span: hideRelicPopupWithDelay in part_000,
\* hideRelicPopup at once in htmlConverter.js.
RelicMouseout ==
  /\ upc = "open"
  /\ hoverRelics # {}
  /\ popup.display = "block"
  /\ IF impl = "part_000" THEN hideRelicPopupWithDelay
     ELSE /\ popup' = [popup EXCEPT !.display = "none"]
          /\ UNCHANGED <<popupTimeout, relicPopupVisible, orphans>>
  /\ UNCHANGED <<upc, currentTab, expandedItems, searchTerm, searchInput,
                 timeout, mainContent, sinceInput, updates>>
  /\ UNCHANGED <<tabClicked, pipelineVars>>

\* mouseover on the popup (part_000): the hide is called off.
PopupMouseover ==
  /\ upc = "open"
  /\ impl = "part_000"
  /\ popup.display = "block"
  /\ popupTimeout' = noTimer
  /\ relicPopupVisible' = TRUE
  /\ UNCHANGED <<upc, currentTab, expandedItems, searchTerm, searchInput,
                 timeout, orphans, popup, mainContent, sinceInput, updates>>
  /\ UNCHANGED <<tabClicked, pipelineVars>>

\* mouseout of the popup (part_000).
PopupMouseout ==
  /\ upc = "open"
  /\ impl = "part_000"
  /\ popup.display = "block"
  /\ hideRelicPopupWithDelay
  /\ UNCHANGED <<upc, currentTab, expandedItems, searchTerm, searchInput,
                 timeout, mainContent, sinceInput, updates>>
  /\ UNCHANGED <<tabClicked, pipelineVars>>

\* mouseover on anything but a relic span (htmlConverter.js): the listener
\* of the document hides the popup.
MouseoverElsewhere ==
  /\ upc = "open"
  /\ impl = "htmlConverter"
  /\ popup.display = "block"
  /\ popup' = [popup EXCEPT !.display = "none"]
  /\ UNCHANGED <<upc, currentTab, expandedItems, searchTerm, relicPopupVisible,
                 searchInput, timeout, popupTimeout, orphans, mainContent,
                 sinceInput, updates>>
  /\ UNCHANGED <<tabClicked, pipelineVars>>

\* The callback of the timer popupTimeout refers to.
PopupTimerFire ==
  /\ upc = "open"
  /\ popupTimeout.armed
  /\ popupTimeout.left = 0
  /\ IF ~relicPopupVisible THEN hideRelicPopup
     ELSE popupTimeout' = noTimer /\ UNCHANGED <<relicPopupVisible, popup>>
  /\ UNCHANGED <<upc, currentTab, expandedItems, searchTerm, searchInput,
                 timeout, orphans, mainContent, sinceInput, updates>>
  /\ UNCHANGED <<tabClicked, pipelineVars>>

\* The callback of a delayed-hide timer that a later one has replaced.
OrphanFire ==
  /\ upc = "open"
  /\ 0 \in orphans
  /\ orphans' = orphans \ {0}
  /\ IF ~relicPopupVisible THEN hideRelicPopup
     ELSE UNCHANGED <<popupTimeout, relicPopupVisible, popup>>
  /\ UNCHANGED <<upc, currentTab, expandedItems, searchTerm, searchInput,
                 timeout, mainContent, sinceInput, updates>>
  /\ UNCHANGED <<tabClicked, pipelineVars>>

\* A click outside the relic spans and the popup (part_000).
DocumentClick ==
  /\ upc = "open"
  /\ impl = "part_000"
  /\ popup.display = "block" \/ popupTimeout.armed \/ relicPopupVisible
  /\ hideRelicPopup
  /\ UNCHANGED <<upc, currentTab, expandedItems, searchTerm, searchInput,
                 timeout, orphans, mainContent, sinceInput, updates>>
  /\ UNCHANGED <<tabClicked, pipelineVars>>

NextUI ==
  \/ OpenPage
  \/ Tick
  \/ InputEvent
  \/ SearchUpdate
  \/ TabClick
  \/ ToggleItem
  \/ ShowRelicPopup
  \/ RelicMouseout
  \/ PopupMouseover
  \/ PopupMouseout
  \/ MouseoverElsewhere
  \/ PopupTimerFire
  \/ OrphanFire
  \/ DocumentClick

SpecUI ==
  InitUI /\ [][NextUI]_vars

(***************************************************************************)
(* Properties.                                                             *)
(***************************************************************************)
\* p occurs somewhere in s.
occursIn(p, s) ==
  \E i \in 1..(Len(s) - Len(p) + 1) : SubSeq(s, i, i + Len(p) - 1) = p

\* The extractor holds the relic data of a page.
extracted ==
  xpc \in {"extracted", "grouped", "serialized", "exit0"}

\* The rows of the page that findRelicTableData reads for a relic: the rows
\* with a data cell between the heading of the relic and the next blank row.
rewardRowsOf(relic) ==
  LET at == findHeaderRow(page, relic \o sIntact)
  IN  IF at = <<0, 0>> THEN <<>>
      ELSE SelectSeq(rowsAfter(page, at), LAMBDA r : tdCells(r) # <<>>)

\* The label the classification rule gives a drop-chance text.
labelOf(text) ==
  CASE occursIn(pctCommon, text) -> Common
    [] ~occursIn(pctCommon, text) /\ occursIn(pctUncommon, text) -> Uncommon
    [] /\ ~occursIn(pctCommon, text)
       /\ ~occursIn(pctUncommon, text)
       /\ occursIn(pctRare, text) -> Rare
    [] OTHER -> <<>>

\* C2: every reward of the extracted data carries the label of the
\* drop-chance text of its row of the page: Common when the text contains
\* "25.33%", else Uncommon when it contains "11.00%", else Rare when it
\* contains "2.00%", and the empty rarity for any other text.
C2_RarityClassification ==
  extracted =>
    \A i \in 1..Len(relicData) :
      LET rows == rewardRowsOf(relicData[i].key)
          got == relicData[i].value
      IN  /\ Len(got) = Len(rows)
          /\ \A k \in 1..Len(got) :
               got[k].rarity = labelOf(tdCells(rows[k])[2].text)

\* C2 witness: the extracted data holds a reward whose text contains two of
\* the tokens and is labelled by the first, and a reward whose text contains
\* none of them and has the empty rarity.
C2_Witness ==
  /\ extracted
  /\ \E i \in 1..Len(relicData) :
       \E k \in 1..Len(rewardRowsOf(relicData[i].key)) :
          /\ tdCells(rewardRowsOf(relicData[i].key)[k])[2].text = txtBoth
          /\ relicData[i].value[k].rarity = Common
  /\ \E i \in 1..Len(relicData) :
       \E k \in 1..Len(rewardRowsOf(relicData[i].key)) :
          /\ tdCells(rewardRowsOf(relicData[i].key)[k])[2].text = txtLegendary
          /\ relicData[i].value[k].rarity = <<>>


\* The extractor holds the grouping of the relic data.
primesBuilt ==
  xpc \in {"grouped", "serialized", "exit0"}

\* The positions <<i, k>> of the rewards of the relic data.
rewardPositions ==
  UNION {{<<i, k>> : k \in 1..Len(relicData[i].value)} : i \in 1..Len(relicData)}

\* The reward at a position, with the relic it belongs to.
entryAt(pos) ==
  [item |-> relicData[pos[1]].value[pos[2]].item,
   rarity |-> relicData[pos[1]].value[pos[2]].rarity,
   source |-> relicData[pos[1]].key]

\* A name that belongs to a produced item: it contains "Prime" and does not
\* contain "Forma".
qualifies(item) ==
  occursIn(sPrime, item) /\ ~occursIn(sForma, item)

\* The parts of all ProducedItems of the extractor, as <<key, part>> pairs.
groupedParts ==
  UNION {{<<primes[j].key, primes[j].value[m]>> : m \in 1..Len(primes[j].value)} :
           j \in 1..Len(primes)}

\* The number of parts over all ProducedItems of the extractor.
groupedCount ==
  Len(flatten([j \in 1..Len(primes) |-> primes[j].value]))

\* C3: a reward is in a ProducedItem if and only if its name contains
\* "Prime" and does not contain "Forma", once for each such reward; "Volt
\* Prime Systems" is under the key "Volt Prime"; no part of any ProducedItem
\* has a name that contains "Forma".
C3_GroupingMembership ==
  primesBuilt =>
    /\ \A pos \in rewardPositions :
         (\E g \in groupedParts : g[2] = entryAt(pos)) <=> qualifies(entryAt(pos).item)
    /\ groupedCount = Cardinality({pos \in rewardPositions : qualifies(entryAt(pos).item)})
    /\ \A g \in groupedParts :
         /\ g[2].item = itemVoltSystems => g[1] = sVoltPrime
         /\ ~occursIn(sForma, g[2].item)

\* C3 witness: the grouping is built from data that holds "Volt Prime
\* Systems" (grouped under "Volt Prime") and a reward whose name contains
\* both "Prime" and "Forma".
C3_Witness ==
  /\ primesBuilt
  /\ \E g \in groupedParts : g[1] = sVoltPrime /\ g[2].item = itemVoltSystems
  /\ \E pos \in rewardPositions : entryAt(pos).item = itemPrimeForma

\* The lines of a text that are not empty.
textLines(text) ==
  SelectSeq(split(text, <<"\n">>), LAMBDA l : l # <<>>)

\* The index of the only line of ls equal to l; 0 when there is none or
\* more than one.
onlyIndex(ls, l) ==
  LET at == {i \in 1..Len(ls) : ls[i] = l}
  IN  IF Cardinality(at) = 1 THEN CHOOSE i \in at : TRUE ELSE 0

\* The lines of the emitted markdown between "# Primes" and "# Relics".
primesSection(text) ==
  LET ls == textLines(text)
  IN  SubSeq(ls, onlyIndex(ls, hdrPrimes) + 1, onlyIndex(ls, hdrRelics) - 1)

\* The lines of the emitted markdown after "# Relics".
relicsSection(text) ==
  LET ls == textLines(text)
  IN  SubSeq(ls, onlyIndex(ls, hdrRelics) + 1, Len(ls))

\* The lines of the wire format.
itemLineOf(name) ==
  <<"-", " ">> \o name

partLineOf(e) ==
  <<" ", " ", "-", " ">> \o e.item \o <<" ", "(">> \o e.rarity
    \o <<")", " ", "-", ">", " ">> \o e.source

relicLineOf(name) ==
  <<"#", "#", " ">> \o name

rewardLineOf(r) ==
  <<"-", " ">> \o r.item \o <<" ", "(">> \o r.rarity \o <<")">>

isIndented(l) ==
  Len(l) >= 1 /\ l[1] = " "

\* The part lines that follow line i of a primes section, up to the next
\* item line.
partLinesUnder(sec, i) ==
  LET stops == {k \in (i + 1)..Len(sec) : ~isIndented(sec[k])}
      last == IF stops = {} THEN Len(sec)
              ELSE (CHOOSE k \in stops : \A j \in stops : k <= j) - 1
  IN  SubSeq(sec, i + 1, last)

\* The number of times x occurs in a sequence.
countIn(sq, x) ==
  Cardinality({i \in 1..Len(sq) : sq[i] = x})

\* The rewards that contribute to the produced item named key: the
\* qualifying rewards that extractPrimes has grouped under it.
contributors(key) ==
  {pos \in rewardPositions :
     /\ qualifies(entryAt(pos).item)
     /\ \E g \in groupedParts : g[1] = key /\ g[2] = entryAt(pos)}

\* The lines the relics section is to hold for the relic data, apart from
\* the location lines.
expectedRelicLines ==
  flatten([i \in 1..Len(relicData) |->
     <<relicLineOf(relicData[i].key)>> \o
     [k \in 1..Len(relicData[i].value) |-> rewardLineOf(relicData[i].value[k])]])

\* C4: in the emitted markdown every produced item is listed once under
\* "# Primes", followed by one part line for each reward that contributes to
\* it, whatever Container it comes from, each naming its own Container after
\* "->"; every qualifying reward has its item listed; and "# Relics" lists
\* every Container, in order, each with exactly its own rewards in order.
C4_EndToEnd ==
  xpc = "serialized" =>
    LET sec == primesSection(markdownContent)
        rel == relicsSection(markdownContent)
    IN  /\ onlyIndex(textLines(markdownContent), hdrPrimes) # 0
        /\ onlyIndex(textLines(markdownContent), hdrRelics) # 0
        /\ \A j \in 1..Len(primes) :
             LET key == primes[j].key
                 at == onlyIndex(sec, itemLineOf(key))
                 under == partLinesUnder(sec, at)
             IN  /\ at # 0
                 /\ Len(under) = Cardinality(contributors(key))
                 /\ \A pos \in contributors(key) :
                      countIn(under, partLineOf(entryAt(pos))) =
                        Cardinality({q \in contributors(key) : entryAt(q) = entryAt(pos)})
        /\ \A pos \in rewardPositions :
             qualifies(entryAt(pos).item) =>
               \E j \in 1..Len(primes) : pos \in contributors(primes[j].key)
        /\ SelectSeq(rel, LAMBDA l : ~startsWith(l, sLocationColon)) = expectedRelicLines

\* C4 witness: markdown is emitted for data in which two Containers reward
\* parts of the same produced item, and both part lines are under the item.
C4_Witness ==
  /\ xpc = "serialized"
  /\ \E j \in 1..Len(primes) :
       \E a, b \in contributors(primes[j].key) :
          /\ a[1] # b[1]
          /\ LET sec == primesSection(markdownContent)
                 under == partLinesUnder(sec, onlyIndex(sec, itemLineOf(primes[j].key)))
             IN  /\ countIn(under, partLineOf(entryAt(a))) >= 1
                 /\ countIn(under, partLineOf(entryAt(b))) >= 1


\* The rarity suffixes of a part line of the wire format.
\* '(Rare) -> '
tagRare ==
  <<"(", "R", "a", "r", "e", ")", " ", "-", ">", " ">>
\* '(Uncommon) -> '
tagUncommon ==
  <<"(", "U", "n", "c", "o", "m", "m", "o", "n", ")", " ", "-", ">", " ">>
\* '(Common) -> '
tagCommon ==
  <<"(", "C", "o", "m", "m", "o", "n", ")", " ", "-", ">", " ">>
\* '() -> '
tagEmpty ==
  <<"(", ")", " ", "-", ">", " ">>

\* The place of a part line in the rarity precedence Rare, Uncommon, Common,
\* unspecified.
precedenceOf(partLine) ==
  IF occursIn(tagRare, partLine) THEN 0
  ELSE IF occursIn(tagUncommon, partLine) THEN 1
  ELSE IF occursIn(tagCommon, partLine) THEN 2
  ELSE 3

\* The item lines of a primes section, in their order.
itemLinesOf(sec) ==
  SelectSeq(sec, LAMBDA l : ~isIndented(l))

\* C5 (as claimed): in the emitted markdown the items are in alphabetical
\* order of name and, within each item, the part lines are in the precedence
\* Rare, Uncommon, Common, and the parts with the empty rarity last.
C5_SerializerOrdering ==
  xpc = "serialized" =>
    LET sec == primesSection(markdownContent)
        names == itemLinesOf(sec)
    IN  /\ \A i \in 1..(Len(names) - 1) : stringLess(names[i], names[i + 1])
        /\ \A i \in 1..(Len(sec) - 1) :
             isIndented(sec[i]) /\ isIndented(sec[i + 1]) =>
               precedenceOf(sec[i]) <= precedenceOf(sec[i + 1])


\* The number of sub-table headings of main under which the page lists a
\* relic name.
listingsOf(name) ==
  Cardinality({t \in 1..Len(subTableTitles) :
     \E k \in 1..Len(findSubTableData(page, subTableTitles[t])) :
        findSubTableData(page, subTableTitles[t])[k] = name})

\* The relic names the page may list.
RelicNames ==
  {relicLithA, relicNeoB, relicOddC}

\* C10: a relic name listed under more than one requested sub-table heading
\* is one Container of the extracted data and one "## " block of the emitted
\* markdown, and the ProducedItems hold one part for each qualifying reward
\* row of its table, not one for each listing.
C10_ContainerUniqueness ==
  xpc = "serialized" =>
    \A name \in RelicNames :
      listingsOf(name) >= 2 =>
        /\ countIn(objKeys(relicData), name) = 1
        /\ countIn(textLines(markdownContent), relicLineOf(name)) = 1
        /\ Cardinality(UNION {{<<j, m>> : m \in {x \in 1..Len(primes[j].value) :
                                  primes[j].value[x].source = name}} :
                              j \in 1..Len(primes)})
             = Cardinality({k \in 1..Len(rewardRowsOf(name)) :
                  qualifies(trim(tdCells(rewardRowsOf(name)[k])[1].text))})

\* C10 witness: markdown is emitted for a page that lists a relic with
\* qualifying rewards under two headings.
C10_Witness ==
  /\ xpc = "serialized"
  /\ \E name \in RelicNames :
       /\ listingsOf(name) >= 2
       /\ \E g \in groupedParts : g[2].source = name

\* The ProducedItems of the parsed data, before generateHTML regroups them.
parsedParts ==
  UNION {{<<parsedData.primes[j].key, parsedData.primes[j].value.parts[m]>> :
            m \in 1..Len(parsedData.primes[j].value.parts)} :
           j \in 1..Len(parsedData.primes)}

\* The renderer has parsed the file that the extractor wrote.
roundTripDone ==
  rpc = "parsed" /\ mdFile.by = "extractor"

triplesOf(name) ==
  {<<g[2].item, g[2].rarity, g[2].source>> : g \in {x \in groupedParts : x[1] = name}}

parsedTriplesOf(name) ==
  {<<g[2].part, g[2].rarity, g[2].relic>> : g \in {x \in parsedParts : x[1] = name}}

\* The set of the elements of a sequence.
Range(sq) ==
  {sq[i] : i \in 1..Len(sq)}

\* C1 (as claimed): parsing the emitted markdown yields the same Container
\* names, the same location and the same ordered (part, rarity) rewards for
\* each Container, and for every ProducedItem the same set of
\* (part, rarity, container) parts.
C1_RoundTrip ==
  roundTripDone =>
    /\ Range(objKeys(parsedData.relics)) = Range(objKeys(relicData))
    /\ \A i \in 1..Len(relicData) :
         /\ objHas(parsedData.relics, relicData[i].key)
         /\ LET c == objGet(parsedData.relics, relicData[i].key)
            IN  /\ c.location = locationOf(relicLocations, relicData[i].key)
                /\ c.rewards = [k \in 1..Len(relicData[i].value) |->
                                  [part |-> relicData[i].value[k].item,
                                   rarity |-> relicData[i].value[k].rarity]]
    /\ Range(objKeys(parsedData.primes)) = Range(objKeys(primes))
    /\ \A j \in 1..Len(primes) :
         parsedTriplesOf(primes[j].key) = triplesOf(primes[j].key)

\* C1 restricted to the data whose rewards all have one of the three
\* rarity labels and no parenthesis in their names.
C1_RoundTripPlain ==
  (\A pos \in rewardPositions :
      /\ entryAt(pos).rarity # <<>>
      /\ ~occursIn(<<"(">>, entryAt(pos).item)) => C1_RoundTrip


\* The parser is about to read "- BadLineNoParen" in the relics section with
\* a Container open.
atBadLine ==
  /\ rpc = "parsing"
  /\ lines # <<>>
  /\ Head(lines) = lnBadLineNoParen
  /\ parser.currentSection = "relics"
  /\ parser.currentItem # <<>>

\* C6: in the relics section with a Container open, the line
\* "- BadLineNoParen" does not raise; it appends to the open Container the
\* reward with part "BadLineNoParen" and empty rarity, after the rewards
\* already collected, and changes nothing else: the section, the open
\* Container, the other Containers and the items are as before, and the
\* parser goes on with the next line.
C6_BadLineNoParen ==
  [][atBadLine =>
       /\ rpc' = "parsing"
       /\ lines' = Tail(lines)
       /\ parser'.currentSection = parser.currentSection
       /\ parser'.currentItem = parser.currentItem
       /\ parser'.primes = parser.primes
       /\ Len(parser'.relics) = Len(parser.relics)
       /\ \A i \in 1..Len(parser.relics) :
            IF parser.relics[i].key = parser.currentItem
            THEN parser'.relics[i] =
                   [key |-> parser.relics[i].key,
                    value |-> [location |-> parser.relics[i].value.location,
                               rewards |-> Append(parser.relics[i].value.rewards,
                                  [part |-> sBadLineNoParen, rarity |-> <<>>])]]
            ELSE parser'.relics[i] = parser.relics[i]]_vars

\* C6 witness: the line has been read after an earlier reward of the open
\* Container, the reward it made is the last one, and a line follows.
C6_Witness ==
  /\ rpc = "parsing"
  /\ lines # <<>>
  /\ parser.currentSection = "relics"
  /\ \E i \in 1..Len(parser.relics) :
       LET rewards == parser.relics[i].value.rewards
       IN  /\ parser.relics[i].key = parser.currentItem
           /\ Len(rewards) >= 2
           /\ rewards[Len(rewards)] = [part |-> sBadLineNoParen, rarity |-> <<>>]

\* A line that some rule of the grammar may accept in the state of the
\* parser: a section header, in the primes section a "- " or "  - " line,
\* in the relics section a "## ", "**Location**:" or "- " line.
matchesRule(p, line) ==
  \/ line \in {hdrPrimes, hdrRelics}
  \/ /\ p.currentSection = "primes"
     /\ \/ startsWith(line, <<"-", " ">>)
        \/ startsWith(line, <<" ", " ", "-", " ">>)
  \/ /\ p.currentSection = "relics"
     /\ \/ startsWith(line, <<"#", "#", " ">>)
        \/ startsWith(line, sLocationColon)
        \/ startsWith(line, <<"-", " ">>)

\* C7 (as claimed): parse never throws on any line, and a line that matches
\* no rule of the grammar is skipped: it changes neither the section, nor
\* the open entity, nor any record, and parsing goes on with the next line.
C7_MalformedLinesSkipped ==
  [][rpc = "parsing" /\ lines # <<>> =>
       /\ rpc' = "parsing"
       /\ lines' = Tail(lines)
       /\ ~matchesRule(parser, Head(lines)) => parser' = parser]_vars

\* C7 apart from the lines that name a property every object inherits.
C7_SkippedUnlessInherited ==
  [][rpc = "parsing" /\ lines # <<>> =>
       /\ rpc' = "parsing"
       /\ lines' = Tail(lines)
       /\ (~matchesRule(parser, Head(lines)) /\ Head(lines) \notin inheritedKeys)
            => parser' = parser]_vars

\* A produced item with a part whose name contains one of the component
\* names of a frame.
frameLike(info) ==
  \E m \in 1..Len(info.parts) :
     \/ occursIn(sSystems, info.parts[m].part)
     \/ occursIn(sChassis, info.parts[m].part)
     \/ occursIn(sNeuroptics, info.parts[m].part)

\* C8 (as claimed): generateHTML puts every ProducedItem with a part that
\* names a frame component ("Systems", "Chassis", "Neuroptics") into
\* warframes and every other one into weapons, each into exactly one of the
\* two, none lost and none invented.
C8_CategoryClassification ==
  [][rpc = "parsed" /\ rpc' = "generated" =>
       LET before == parsedData.primes
           after == parsedData'.primes
       IN  /\ Len(after.warframes) + Len(after.weapons) = Len(before)
           /\ \A i \in 1..Len(before) :
                IF frameLike(before[i].value)
                THEN /\ before[i] \in Range(after.warframes)
                     /\ before[i] \notin Range(after.weapons)
                ELSE /\ before[i] \in Range(after.weapons)
                     /\ before[i] \notin Range(after.warframes)]_vars

\* The relic names the extractor looks up on the fetched page: the names the
\* requested sub-tables list, in the order of the lookups.
lookedUp ==
  flatten([t \in 1..Len(subTableTitles) |->
             findSubTableData(document.tables, subTableTitles[t])])

\* C11 (as claimed): on the fetched page neither locator throws for any
\* heading the extractor asks for; a heading that no header cell carries
\* gives the empty sequence, and a heading that exists gives a sequence
\* whatever the rows after it look like, rows with a single cell included.
C11_LocatorsNeverThrow ==
  (xpc # "start" /\ ~document.isNull) =>
     /\ \A t \in 1..Len(subTableTitles) :
           findHeaderRow(document.tables, subTableTitles[t]) = <<0, 0>>
             => findSubTableData(document.tables, subTableTitles[t]) = <<>>
     /\ \A k \in 1..Len(lookedUp) :
           LET found == findRelicTableData(document.tables, lookedUp[k])
           IN  /\ ~found.threw
               /\ findHeaderRow(document.tables, lookedUp[k] \o sIntact) = <<0, 0>>
                    => found.rows = <<>>

\* C11 for the pages whose reward rows all have two data cells or none.
C11_LocatorsOnFullRows ==
  (xpc # "start" /\ ~document.isNull
     /\ \A k \in 1..Len(lookedUp) :
          \A i \in 1..Len(rewardRowsOf(lookedUp[k])) :
             Len(tdCells(rewardRowsOf(lookedUp[k])[i])) >= 2) =>
     /\ \A t \in 1..Len(subTableTitles) :
           findHeaderRow(document.tables, subTableTitles[t]) = <<0, 0>>
             => findSubTableData(document.tables, subTableTitles[t]) = <<>>
     /\ \A k \in 1..Len(lookedUp) :
           LET found == findRelicTableData(document.tables, lookedUp[k])
           IN  /\ ~found.threw
               /\ findHeaderRow(document.tables, lookedUp[k] \o sIntact) = <<0, 0>>
                    => found.rows = <<>>

\* No lookup of the extractor raises on the fetched page.
locatorsReturn ==
  ~extractSubTableData(document.tables, subTableTitles).threw

\* C12 (as claimed): once the page is fetched, headings that are missing
\* never fail the run: for any set of missing sub-table and relic headings,
\* all of them included, each missing lookup is empty and the extractor goes
\* on to write the markdown file; it ends with exit code 1 only when the
\* write of the file fails.
C12_PartialOutput ==
  [][(xpc = "fetched" /\ ~document.isNull /\ locatorsReturn) =>
       /\ xpc' = "extracted"
       /\ \A k \in 1..Len(lookedUp) :
            findHeaderRow(document.tables, lookedUp[k] \o sIntact) = <<0, 0>>
              => objGet(relicData', lookedUp[k]) = <<>>]_vars

\* C12 for the pages that list at least one relic under a requested
\* sub-table heading.
C12_PartialWhenListed ==
  [][(xpc = "fetched" /\ ~document.isNull /\ locatorsReturn /\ lookedUp # <<>>) =>
       /\ xpc' = "extracted"
       /\ \A k \in 1..Len(lookedUp) :
            findHeaderRow(document.tables, lookedUp[k] \o sIntact) = <<0, 0>>
              => objGet(relicData', lookedUp[k]) = <<>>]_vars

\* An exit code of a pipeline.
exitCodes ==
  {"exit0", "exit1"}

\* C13: the extractor ends with exit code 1 when the fetch failed, and does
\* not fetch again; the renderer ends with exit code 1 when currentPrimes.md
\* cannot be read or index.html cannot be written; a pipeline ends with exit
\* code 0 exactly when its last statement, the write of its file, succeeded;
\* an exit code never changes.
C13_ExitCodes ==
  [][/\ (xpc = "fetched" /\ document.isNull) => xpc' = "exit1"
     /\ xpc # "start" => (xpc' # "start" /\ document' = document)
     /\ (xpc = "serialized" /\ xpc' # xpc) =>
          /\ xpc' \in exitCodes
          /\ xpc' = "exit0" <=> (mdFile'.exists /\ mdFile'.by = "extractor")
     /\ (xpc' = "exit0" /\ xpc # "exit0") => (xpc = "serialized" /\ ~document.isNull)
     /\ (rpc = "start" /\ rpc' # rpc) => (rpc' = "exit1" <=> ~mdFile.exists)
     /\ (rpc = "generated" /\ rpc' # rpc) =>
          /\ rpc' \in exitCodes
          /\ rpc' = "exit0" <=> htmlFile'.exists
     /\ (rpc' = "exit0" /\ rpc # "exit0") => rpc = "generated"
     /\ xpc \in exitCodes => xpc' = xpc
     /\ rpc \in exitCodes => rpc' = rpc]_vars

\* The fetch failed and the extractor ended with 1 without writing the file;
\* the renderer then found no file to read and ended with 1 as well.
C13_Witness ==
  /\ document.isNull
  /\ xpc = "exit1"
  /\ ~mdFile.exists
  /\ rpc = "exit1"
  /\ ~htmlFile.exists

\* The parser is about to visit a line.
visiting ==
  rpc = "parsing" /\ lines # <<>>

\* C19 (as claimed): a line changes the current section, and resets the
\* open entity to none, exactly when it is "# Primes" or "# Relics"; any
\* other line leaves the section as it is and does not reset the open
\* entity; after any line the section is primes, relics or none.
C19_SectionSwitching ==
  [][visiting =>
       /\ parser'.currentSection \in {"primes", "relics", "null"}
       /\ IF Head(lines) = hdrPrimes
          THEN parser'.currentSection = "primes" /\ parser'.currentItem = <<>>
          ELSE IF Head(lines) = hdrRelics
          THEN parser'.currentSection = "relics" /\ parser'.currentItem = <<>>
          ELSE /\ parser'.currentSection = parser.currentSection
               /\ parser.currentItem # <<>> => parser'.currentItem # <<>>]_vars

\* C19 apart from the lines that name a property every object inherits, and
\* from the lines that follow one.
C19_SwitchingUnlessInherited ==
  [][(visiting /\ Head(lines) \notin inheritedKeys
        /\ parser.currentSection \in {"primes", "relics", "null"}) =>
       /\ parser'.currentSection \in {"primes", "relics", "null"}
       /\ IF Head(lines) = hdrPrimes
          THEN parser'.currentSection = "primes" /\ parser'.currentItem = <<>>
          ELSE IF Head(lines) = hdrRelics
          THEN parser'.currentSection = "relics" /\ parser'.currentItem = <<>>
          ELSE /\ parser'.currentSection = parser.currentSection
               /\ parser.currentItem # <<>> => parser'.currentItem # <<>>]_vars

\* The line of the file that the parser is about to visit, as the file has
\* it: before the trim that parse applies to every line.
rawLine ==
  LET raw == split(trim(mdFile.content), <<"\n">>)
  IN  raw[Len(raw) - Len(lines) + 1]

\* The parts of the open item.
openParts(p) ==
  IF objHas(p.primes, p.currentItem) THEN objGet(p.primes, p.currentItem).parts
  ELSE <<>>

\* The line opens a new ProducedItem of the given name.
opensItem(name) ==
  /\ parser'.currentItem = name
  /\ objHas(parser'.primes, name)
  /\ objGet(parser'.primes, name).parts = <<>>

\* The line appends one part to the open item and opens no item.
appendsPart ==
  /\ parser'.currentItem = parser.currentItem
  /\ objKeys(parser'.primes) = objKeys(parser.primes)
  /\ Len(openParts(parser')) = Len(openParts(parser)) + 1
  /\ SubSeq(openParts(parser'), 1, Len(openParts(parser))) = openParts(parser)

\* C20 (as claimed): in the primes section a line of the file that starts
\* with "- " and has no "->" opens a new ProducedItem; a line that starts
\* with "  - ", with or without "->", or a "- " line with "->", appends a
\* part to the open item and opens no ProducedItem.
C20_PrimesDispatch ==
  [][(visiting /\ parser.currentSection = "primes") =>
       /\ (startsWith(rawLine, <<"-", " ">>) /\ ~includes(rawLine, sArrow))
            => opensItem(trim(substring(rawLine, 2)))
       /\ (parser.currentItem # <<>> /\ isPartLine(rawLine)) => appendsPart]_vars

\* C20 for the lines that carry "->" after a part name that is not empty.
C20_DispatchWithArrow ==
  [][(visiting /\ parser.currentSection = "primes") =>
       /\ (startsWith(rawLine, <<"-", " ">>) /\ ~includes(rawLine, sArrow))
            => opensItem(trim(substring(rawLine, 2)))
       /\ (parser.currentItem # <<>> /\ isPartLine(rawLine)
             /\ includes(stripBullet(rawLine), sArrow)) => appendsPart]_vars

\* Every value that the content region and the popup show, with the markup
\* put in its place.
shownInsertions ==
  UNION {{mainContent.entries[i].inserts[k] :
            k \in 1..Len(mainContent.entries[i].inserts)} :
         i \in 1..Len(mainContent.entries)}
  \cup {popup.content.inserts[k] : k \in 1..Len(popup.content.inserts)}

\* C14 (as claimed): in the markup that the page's renderer generates, every
\* value taken from the dataset (item, part and container names, locations,
\* rarity labels) stands escaped (&, <, >, " and ' replaced by entities) at
\* every place it is inserted: element text, attribute value, handler
\* argument.
C14_MarkupEscaping ==
  upc = "open" =>
     \A x \in shownInsertions : x.markup = escapeHtml(x.value)

\* C14 for the page of part_000, apart from the rarity labels, which go into
\* the class attribute.
C14_EscapedApartFromRarity ==
  (upc = "open" /\ impl = "part_000") =>
     \A x \in shownInsertions :
        x.slot # "attribute" => x.markup = escapeHtml(x.value)

\* C15: after a click on a tab button the current tab is the clicked tab,
\* the search term is empty and no key is expanded, and the search term stays
\* empty until the next input event, whatever the interleaving of the click
\* with input events and with a debounced update that was pending.
C15_TabSwitchResets ==
  [][/\ \A tab \in Tabs :
           TabClickOn(tab) =>
              /\ currentTab' = tab
              /\ searchTerm' = <<>>
              /\ expandedItems' = {}
     /\ (tabClicked /\ tabClicked') => searchTerm' = <<>>]_vars

\* In part_000, where the click also empties the search box, the search term
\* stays empty after a click until the next input event.
C15_ResetsWhenBoxCleared ==
  [][impl = "part_000" =>
       /\ \A tab \in Tabs :
             TabClickOn(tab) =>
                /\ currentTab' = tab
                /\ searchTerm' = <<>>
                /\ expandedItems' = {}
                /\ searchInput' = <<>>
       /\ (tabClicked /\ tabClicked') => searchTerm' = <<>>]_vars

\* A debounced update was pending at a click in part_000 and has run since.
C15_LateUpdateAfterClick ==
  /\ impl = "part_000"
  /\ tabClicked
  /\ updates = 1
  /\ ~timeout.armed
  /\ searchTerm = <<>>

\* A step in which an input event reaches the search box.
inputStep ==
  searchInput' # searchInput /\ ~tabClicked'

\* A step in which the debounced listener updates the state.
updateStep ==
  updates' = updates + 1

\* C16: the debounced listener updates the search term and renders the
\* content only when 300 ms have passed since the latest input event with no
\* input event in between; from an input event on a timer is pending until
\* the update, so a burst of input events brings exactly one update; at the
\* update the search term becomes the value the search box has then.
C16_SearchDebounce ==
  [][/\ updateStep =>
          /\ sinceInput = WaitTicks
          /\ updates = 0
          /\ searchTerm' = searchInput
          /\ searchInput' = searchInput
          /\ mainContent' = rendered(currentTab, searchInput, expandedItems)
     /\ inputStep =>
          /\ timeout'.armed /\ timeout'.left = WaitTicks
          /\ updates' = 0
          /\ searchTerm' = searchTerm
          /\ mainContent' = mainContent
     /\ (timeout.armed /\ ~timeout'.armed) => updateStep
     /\ (timeout.armed /\ timeout'.armed /\ ~inputStep) =>
          timeout'.left <= timeout.left]_vars

\* An update has run after a quiet period and shows the typed term.
C16_UpdatedAfterQuiet ==
  /\ updates = 1
  /\ ~timeout.armed
  /\ sinceInput = WaitTicks
  /\ ~tabClicked
  /\ searchInput = termA1
  /\ searchTerm = termA1

\* The names on the headers of the entries that the content shows.
headerNames ==
  {mainContent.entries[i].name : i \in 1..Len(mainContent.entries)}

\* C17: toggleItem(name) adds name to the expanded keys when it is absent
\* and removes it when it is present; the membership of every other key, the
\* current tab and the search term stay as they are, and a second toggle of
\* the same name gives back the set.
C17_ToggleItem ==
  [][ToggleItem =>
       /\ \E name \in headerNames :
             /\ name \in expandedItems' <=> name \notin expandedItems
             /\ expandedItems' \ {name} = expandedItems \ {name}
             /\ toggled(name)' = expandedItems
       /\ currentTab' = currentTab
       /\ searchTerm' = searchTerm
       /\ searchInput' = searchInput]_vars

\* One entry is expanded by a toggle while another one stays collapsed.
C17_OneExpanded ==
  /\ upc = "open"
  /\ \E i, j \in 1..Len(mainContent.entries) :
        /\ mainContent.entries[i].active
        /\ ~mainContent.entries[j].active
        /\ expandedItems = {mainContent.entries[i].name}

\* The lowercase search term occurs in the lowercase text; a field without a
\* value holds no text.
termIn(text) ==
  /\ text # Undefined
  /\ occursIn(toLowerCase(searchTerm), toLowerCase(text))

\* The items of the primes data of the page, warframes and weapons.
primeEntries ==
  LET both == htmlFile.data.primes.warframes \o htmlFile.data.primes.weapons
  IN  {both[i] : i \in 1..Len(both)}

relicEntries ==
  {htmlFile.data.relics[i] : i \in 1..Len(htmlFile.data.relics)}

\* C18: with search term t the primes view shows an item exactly when
\* lowercase(t) occurs in the lowercase name of the item, of one of its parts
\* or of the relic of one of its parts; the relics view shows a relic exactly
\* when lowercase(t) occurs in its lowercase name or in the name of one of its
\* rewards; with the empty term every entry is shown.
C18_SearchFilter ==
  upc = "open" =>
    /\ currentTab = "primes" =>
         \A e \in primeEntries :
            e.key \in headerNames <=>
              \/ termIn(e.key)
              \/ \E i \in 1..Len(e.value.parts) :
                    \/ termIn(e.value.parts[i].part)
                    \/ termIn(e.value.parts[i].relic)
    /\ currentTab = "relics" =>
         \A e \in relicEntries :
            e.key \in headerNames <=>
              \/ termIn(e.key)
              \/ \E i \in 1..Len(e.value.rewards) :
                    termIn(e.value.rewards[i].part)
    /\ searchTerm = <<>> =>
         headerNames = {e.key : e \in IF currentTab = "primes" THEN primeEntries
                                      ELSE relicEntries}

\* The primes view shows an item for the relic of one of its parts only,
\* and leaves another item out.
C18_ShownForItsRelic ==
  /\ upc = "open"
  /\ currentTab = "primes"
  /\ searchTerm # <<>>
  /\ \E e \in primeEntries :
        /\ e.key \in headerNames
        /\ ~termIn(e.key)
        /\ \A i \in 1..Len(e.value.parts) : ~termIn(e.value.parts[i].part)
  /\ \E e \in primeEntries : e.key \notin headerNames

\* The rewards of the open Container.
openRewards(p) ==
  IF objHas(p.relics, p.currentItem) THEN objGet(p.relics, p.currentItem).rewards
  ELSE <<>>

\* The text of a reward line after its "- ".
rewardText ==
  trim(substring(rawLine, 2))

\* The text has the form "<name> (<rarity>)": it ends with ")" and holds a
\* "(" before it.
hasFinalGroup(t) ==
  /\ t # <<>>
  /\ t[Len(t)] = ")"
  /\ \E i \in 1..(Len(t) - 1) : t[i] = "("

\* Where the final parenthesized group of the text opens.
finalGroupAt(t) ==
  CHOOSE i \in 1..(Len(t) - 1) :
    /\ t[i] = "("
    /\ \A j \in (i + 1)..(Len(t) - 1) : t[j] # "("

\* The line is a reward line read with a Container open.
readsReward ==
  /\ visiting
  /\ parser.currentSection = "relics"
  /\ parser.currentItem # <<>>
  /\ startsWith(rawLine, <<"-", " ">>)

\* C21: for a reward text "<name> (<rarity>)" the parser returns the text
\* before the final parenthesized group as the part and the text inside the
\* group as the rarity, also when the name holds parentheses and when the
\* rarity is empty.
C21_RarityVerbatim ==
  [][(readsReward /\ hasFinalGroup(rewardText)) =>
       LET at == finalGroupAt(rewardText)
           n == Len(openRewards(parser'))
       IN  /\ n = Len(openRewards(parser)) + 1
           /\ openRewards(parser')[n] =
                [part |-> trim(SubSeq(rewardText, 1, at - 1)),
                 rarity |-> SubSeq(rewardText, at + 1, Len(rewardText) - 1)]]_vars

\* C21 for the texts with one parenthesized group that is not empty.
C21_RarityOfOneGroup ==
  [][(/\ readsReward
      /\ hasFinalGroup(rewardText)
      /\ Len(split(rewardText, <<"(">>)) = 2
      /\ Len(split(rewardText, <<")">>)) = 2
      /\ ~includes(rewardText, <<"(", ")">>)) =>
       LET at == finalGroupAt(rewardText)
           n == Len(openRewards(parser'))
       IN  /\ n = Len(openRewards(parser)) + 1
           /\ openRewards(parser')[n] =
                [part |-> trim(SubSeq(rewardText, 1, at - 1)),
                 rarity |-> SubSeq(rewardText, at + 1, Len(rewardText) - 1)]]_vars

\* The line is a location line read in the relics section with a Container
\* open.
readsLocation ==
  /\ visiting
  /\ parser.currentSection = "relics"
  /\ objHas(parser.relics, parser.currentItem)
  /\ startsWith(trim(rawLine), sLocationColon)

\* The whole text of the line after its first colon, trimmed.
afterFirstColon(t) ==
  trim(SubSeq(t, indexOf(t, <<":">>) + 1, Len(t)))

\* The step changes the location of the open Container only.
onlyLocationChanges ==
  /\ objKeys(parser'.relics) = objKeys(parser.relics)
  /\ \A i \in 1..Len(parser.relics) :
        /\ parser'.relics[i].value.rewards = parser.relics[i].value.rewards
        /\ parser.relics[i].key # parser.currentItem =>
             parser'.relics[i].value = parser.relics[i].value
  /\ parser'.primes = parser.primes
  /\ parser'.currentItem = parser.currentItem
  /\ parser'.currentSection = parser.currentSection

\* C22: in the relics section with a Container open, a line that starts
\* with "**Location**:" sets the location of that Container to the whole
\* trimmed text after the first colon, further colons included, and changes
\* no other Container and no reward list.
C22_LocationParsing ==
  [][readsLocation =>
       /\ objGet(parser'.relics, parser.currentItem).location =
            afterFirstColon(trim(rawLine))
       /\ onlyLocationChanges]_vars

\* C22 in part_000, which joins the pieces after the first colon again.
C22_LocationWhenJoined ==
  [][(readsLocation /\ impl = "part_000") =>
       /\ objGet(parser'.relics, parser.currentItem).location =
            afterFirstColon(trim(rawLine))
       /\ onlyLocationChanges]_vars

\* A location with a colon in it has been read in part_000.
C22_ColonInLocation ==
  /\ impl = "part_000"
  /\ \E i \in 1..Len(parser.relics) :
        includes(parser.relics[i].value.location, <<":">>)

\* C23: the key of every part that extractPrimes groups is the name of the
\* reward cut at its first "Prime" with "Prime" put back, so the key is a
\* prefix of the name and ends with "Prime", whatever stands before or after
\* the marker.
C23_GroupingKey ==
  primesBuilt =>
    \A g \in groupedParts :
       LET at == indexOf(g[2].item, sPrime)
       IN  /\ at # 0
           /\ g[1] = SubSeq(g[2].item, 1, at - 1) \o sPrime
           /\ startsWith(g[2].item, g[1])

\* C23 for the names whose first "Prime" follows a space.
C23_KeyAfterSpace ==
  primesBuilt =>
    \A g \in groupedParts :
       LET at == indexOf(g[2].item, sPrime)
       IN  (at > 1 /\ g[2].item[at - 1] = " ") =>
              /\ g[1] = SubSeq(g[2].item, 1, at - 1) \o sPrime
              /\ startsWith(g[2].item, g[1])

\* The rewards of the relic data in the order of one pass: the Containers
\* in the order of the data, the rewards of each in the order of its table.
RECURSIVE inScanOrder(_)
inScanOrder(r) ==
  IF r > Len(relicData) THEN <<>>
  ELSE [k \in 1..Len(relicData[r].value) |-> entryAt(<<r, k>>)]
       \o inScanOrder(r + 1)

\* C24: right after extractPrimes the parts of every ProducedItem are the
\* rewards that belong to it in the order of one pass over the Containers
\* and over the rewards of each Container; an item that several Containers
\* feed holds the parts of all of them.
C24_GroupingOrder ==
  xpc = "grouped" =>
    \A j \in 1..Len(primes) :
       /\ primes[j].value # <<>>
       /\ primes[j].value =
            SelectSeq(inScanOrder(1), LAMBDA e :
              \E m \in 1..Len(primes[j].value) : primes[j].value[m] = e)
       /\ \A r \in 1..Len(relicData) :
             \A k \in 1..Len(relicData[r].value) :
                (\E m \in 1..Len(primes[j].value) :
                    primes[j].value[m].item = relicData[r].value[k].item
                    /\ qualifies(relicData[r].value[k].item)) =>
                   \E m \in 1..Len(primes[j].value) :
                      primes[j].value[m] = entryAt(<<r, k>>)

\* extractPrimes has grouped an item with parts from two Containers, the
\* later Container's part after the earlier one's.
C24_TwoContainers ==
  /\ xpc = "grouped"
  /\ \E j \in 1..Len(primes) :
        /\ Len(primes[j].value) >= 3
        /\ \E m \in 1..(Len(primes[j].value) - 1) :
              /\ primes[j].value[m].source = relicData[1].key
              /\ primes[j].value[m + 1].source # relicData[1].key

\* The rows between the row of a heading and the next blank row (or the end
\* of the sibling rows) that hold a data cell and no nested header cell.
plainRowsUnder(title) ==
  LET at == findHeaderRow(page, title)
  IN  IF at = <<0, 0>> THEN <<>>
      ELSE SelectSeq(rowsAfter(page, at), LAMBDA r :
             tdCells(r) # <<>> /\ ~hasTh(r))

\* C25: both locators return rows only from the rows between the matched
\* heading row and the first blank row after it, in document order, and both
\* skip every row with a nested header cell: such a row gives no relic name
\* and no reward.
C25_RowScan ==
  extracted =>
    /\ \A i \in 1..Len(relicData) :
          /\ \E t \in 1..Len(subTableTitles) :
                \E k \in 1..Len(plainRowsUnder(subTableTitles[t])) :
                   trim(tdCells(plainRowsUnder(subTableTitles[t])[k])[1].text)
                     = relicData[i].key
          /\ [k \in 1..Len(relicData[i].value) |-> relicData[i].value[k].item] =
               LET rows == plainRowsUnder(relicData[i].key \o sIntact)
               IN  [k \in 1..Len(rows) |-> trim(tdCells(rows[k])[1].text)]

\* C25 for the sub-table locator alone: the relic names of the data are
\* names of rows without a header cell under a requested heading.
C25_ListingScan ==
  extracted =>
    \A i \in 1..Len(relicData) :
       \E t \in 1..Len(subTableTitles) :
          \E k \in 1..Len(plainRowsUnder(subTableTitles[t])) :
             trim(tdCells(plainRowsUnder(subTableTitles[t])[k])[1].text)
               = relicData[i].key

\* C26: once the page is open, after every handler the content region is
\* the full render of the current tab, the current search term and the
\* current set of expanded keys; no handler leaves one of the three changed
\* with the content of before.
C26_RenderConsistency ==
  upc = "open" =>
    mainContent = rendered(currentTab, searchTerm, expandedItems)

\* The three handlers have acted: the relics tab is shown for a search term
\* that a debounced update has set, with an entry expanded.
C26_AllHandlersActed ==
  /\ upc = "open"
  /\ currentTab = "relics"
  /\ searchTerm # <<>>
  /\ updates = 1
  /\ expandedItems # {}
  /\ \E i \in 1..Len(mainContent.entries) : mainContent.entries[i].active

\* C27: the extractor that ends with a failure has neither created nor
\* overwritten currentPrimes.md; the file changes in one step only, the write
\* that follows grouping and serialization and ends the run with success,
\* and it then holds the serialized markdown.
C27_NoWriteOnFailure ==
  [][/\ xpc' = "exit1" => mdFile' = mdFile
     /\ mdFile' # mdFile =>
          /\ xpc = "serialized"
          /\ xpc' = "exit0"
          /\ mdFile' = [exists |-> TRUE, content |-> markdownContent,
                        by |-> "extractor"]
          /\ markdownContent =
               generateMarkdown(extractPrimes(relicData), relicData,
                                relicLocations, dateText)]_vars

\* The fetch has failed and the extractor has ended with a failure next to
\* a markdown file that was there before the run.
C27_FailedBesideFile ==
  /\ xpc = "exit1"
  /\ document.isNull
  /\ mdFile.exists
  /\ mdFile.by = "hand"

\* The first sequence is the beginning of the second.
isPrefix(a, b) ==
  Len(a) <= Len(b) /\ SubSeq(b, 1, Len(a)) = a

\* C28: no line takes away what the parser has collected: after every
\* line each item declared so far still holds the parts read under it and
\* each Container the rewards read under it, and a Container keeps its
\* location unless the line is a location line, also when the line declares
\* a name again that was declared before.
C28_NoAcceptedLineLost ==
  [][visiting =>
       /\ \A i \in 1..Len(parser.primes) :
             /\ objHas(parser'.primes, parser.primes[i].key)
             /\ isPrefix(parser.primes[i].value.parts,
                         objGet(parser'.primes, parser.primes[i].key).parts)
       /\ \A i \in 1..Len(parser.relics) :
             /\ objHas(parser'.relics, parser.relics[i].key)
             /\ isPrefix(parser.relics[i].value.rewards,
                         objGet(parser'.relics, parser.relics[i].key).rewards)
             /\ \/ startsWith(lines[1], sLocationColon)
                \/ objGet(parser'.relics, parser.relics[i].key).location
                     = parser.relics[i].value.location]_vars

\* C28 for the lines that declare no name that was declared before.
C28_KeptUnlessDeclaredAgain ==
  [][(/\ visiting
      /\ \A i \in 1..Len(parser.primes) :
            parser.primes[i].value.parts # <<>> =>
               parser.primes[i].key # trim(substring(lines[1], 2))
      /\ \A i \in 1..Len(parser.relics) :
            parser.relics[i].key # trim(substring(lines[1], 3))) =>
       /\ \A i \in 1..Len(parser.primes) :
             /\ objHas(parser'.primes, parser.primes[i].key)
             /\ isPrefix(parser.primes[i].value.parts,
                         objGet(parser'.primes, parser.primes[i].key).parts)
       /\ \A i \in 1..Len(parser.relics) :
             /\ objHas(parser'.relics, parser.relics[i].key)
             /\ isPrefix(parser.relics[i].value.rewards,
                         objGet(parser'.relics, parser.relics[i].key).rewards)
             /\ \/ startsWith(lines[1], sLocationColon)
                \/ objGet(parser'.relics, parser.relics[i].key).location
                     = parser.relics[i].value.location]_vars

\* C29: generateHTML leaves the data object it is given as it was, so that
\* a second call with the same object separates the same primes and returns
\* the same page.
C29_DataUnchanged ==
  [][(rpc = "parsed" /\ rpc' = "generated") =>
       /\ parsedData' = parsedData
       /\ separateOf(impl, parsedData'.primes) = separateOf(impl, parsedData.primes)]_vars

\* What generateHTML does leave alone: the relics of the data, and the items
\* with their parts, which all are in one of the two buckets afterwards.
C29_OnlyPrimesRegrouped ==
  [][(rpc = "parsed" /\ rpc' = "generated") =>
       /\ parsedData'.relics = parsedData.relics
       /\ parsedData'.primes = separateOf(impl, parsedData.primes)
       /\ Range(parsedData'.primes.warframes) \cup Range(parsedData'.primes.weapons)
            = Range(parsedData.primes)]_vars

\* A step in which the callback of a delayed-hide timer hides the popup.
timerHides ==
  /\ PopupTimerFire \/ OrphanFire
  /\ popup.display = "block"
  /\ popup'.display = "none"

\* C30: in part_000 the callback of a delayed-hide timer hides the popup
\* only when 300 ms have passed since the latest mouseout with no
\* showRelicPopup and no popup mouseover since, which is when the timer of the
\* latest mouseout has run down; a timer of an earlier mouseout hides it
\* neither while the pointer is on a relic name or on the popup nor sooner
\* than 300 ms after the latest mouseout.
C30_PopupDelayedHide ==
  [][(impl = "part_000" /\ timerHides) =>
       /\ ~relicPopupVisible
       /\ popupTimeout.armed
       /\ popupTimeout.left = 0]_vars

\* The part of C30 that the flag relicPopupVisible secures: no timer callback
\* hides the popup while the pointer is on a relic name or on the popup, and
\* the timer of the latest mouseout hides it only once it has run down.
C30_NoHideWhilePointed ==
  [][/\ ((PopupTimerFire \/ OrphanFire) /\ relicPopupVisible) =>
          popup'.display = popup.display
     /\ (timerHides /\ orphans' = orphans) =>
          popupTimeout.armed /\ popupTimeout.left = 0]_vars

\* The timer of an earlier mouseout has run down while the timer of the
\* latest mouseout is still running and the popup is shown.
C30_EarlierTimerDue ==
  /\ impl = "part_000"
  /\ 0 \in orphans
  /\ popupTimeout.armed
  /\ popupTimeout.left > 0
  /\ ~relicPopupVisible
  /\ popup.display = "block"

=============================================================================
